---- MODULE Spec2Model ----
(***************************************************************************)
(* GPRQuizBot: the round / guess store (data.py), the game-day calendar,   *)
(* the /guess command and the two conversation wizards.                    *)
(*                                                                         *)
(* Conventions.                                                            *)
(*  - a date is its day number since 1970-01-01 (proleptic Gregorian);     *)
(*  - a time of day is its number of seconds since midnight;               *)
(*  - an instant (datetime, timestamp) is seconds since the epoch, the     *)
(*    local time zone being taken as UTC without daylight saving;          *)
(*  - an Optional value is None == <<>> or Some(v) == <<v>>;               *)
(*  - a text is a tuple of one-character strings.                          *)
(***************************************************************************)
EXTENDS Integers, Sequences, FiniteSets, TLC

(***************************************************************************)
(* Bounds of the model.                                                    *)
(***************************************************************************)
MaxDate == 3          \* round start dates range over Day0 .. Day0 + MaxDate
MaxDuration == 2      \* round durations range over 1 .. MaxDuration
MaxDocs == 3          \* documents the store may hold in a run
MaxDay == 1           \* the clock runs over the days Day0 .. Day0 + MaxDay

(***************************************************************************)
(* Program constants.                                                      *)
(***************************************************************************)
SecondsPerDay == 86400
first_clue_time == 21600        \* 06:00; data.py reads the name and never assigns it

None == <<>>
Some(v) == <<v>>

Users == {1, 2}

\* A conversation is kept per chat and user, user_data per user: besides the
\* conversation of each user in the first chat there is one of the first
\* user in a second chat.
SecondChat == Cardinality(Users) + 1

Conversations == Users \cup {SecondChat}

\* The user of a conversation.
user_of(c) == IF c \in Users THEN c ELSE CHOOSE u \in Users : \A v \in Users : u <= v

(***************************************************************************)
(* datetime.date arithmetic.                                               *)
(***************************************************************************)
\* date(y, m, d) as a day number.
days_from_civil(y, m, d) ==
    LET yy  == IF m <= 2 THEN y - 1 ELSE y
        era == yy \div 400
        yoe == yy - era * 400
        mp  == IF m > 2 THEN m - 3 ELSE m + 9
        doy == (153 * mp + 2) \div 5 + d - 1
        doe == yoe * 365 + yoe \div 4 - yoe \div 100 + doy
    IN  era * 146097 + doe - 719468

\* The <<year, month, day>> of a day number.
civil_from_days(z) ==
    LET zz  == z + 719468
        era == zz \div 146097
        doe == zz - era * 146097
        yoe == (doe - doe \div 1460 + doe \div 36524 - doe \div 146096) \div 365
        doy == doe - (365 * yoe + yoe \div 4 - yoe \div 100)
        mp  == (5 * doy + 2) \div 153
        d   == doy - (153 * mp + 2) \div 5 + 1
        m   == IF mp < 10 THEN mp + 3 ELSE mp - 9
        y   == yoe + era * 400
    IN  << IF m <= 2 THEN y + 1 ELSE y, m, d >>

\* The first day of every run: 1 March 2024.
Day0 == days_from_civil(2024, 3, 1)

\* date.isoformat(): the text YYYY-MM-DD, kept as its three fields.
isoformat(d) == civil_from_days(d)

\* date.fromisoformat().
fromisoformat(s) == days_from_civil(s[1], s[2], s[3])

(***************************************************************************)
(* Round (data.py).                                                        *)
(***************************************************************************)
Round(name, start_date, duration_days) ==
    [name |-> name, start_date |-> start_date, duration_days |-> duration_days]

\* A variant that takes the day after the last day.
end_date_exclusive(self) == self.start_date + self.duration_days

end_date(self) == self.start_date + (self.duration_days - 1)

\* A variant that makes the first of the two comparisons only.
overlaps_with_one_sided(self, other) == self.start_date <= end_date(other)

overlaps_with_strict(self, other) ==
    /\ self.start_date < end_date(other)
    /\ other.start_date < end_date(self)

overlaps_with(self, other) ==
    /\ self.start_date <= end_date(other)
    /\ other.start_date <= end_date(self)

to_dict(self) ==
    [type |-> "round", name |-> self.name,
     start_date |-> isoformat(self.start_date),
     duration_days |-> self.duration_days]

(***************************************************************************)
(* State.                                                                  *)
(***************************************************************************)
VARIABLES
    db,        \* the documents of db.json, in insertion order
    now,       \* the wall clock, seconds since the epoch
    ret,       \* the value returned by the last data-layer call recorded
    window,    \* the last get_game_day_timestamps call: arguments and result
    reply,     \* the last text the bot sent, [to, kind, text], or for a handler
               \* that raised, the exception as the kind
    nr_state,  \* per chat and user: the state of the /newround conversation, or "END"
    rv_state,  \* per chat and user: the state of the /review conversation, or "END"
    user_data, \* per user: context.user_data, a missing key reading None
    conv_state,       \* new_round.py: per chat and user, the state of its conversation
    round_name,       \* new_round.py: the module's global round_name
    round_start_date, \* new_round.py: the module's global round_start_date
    round_duration,   \* new_round.py: the module's global round_duration
    save_round_calls, \* per caller: a save_round call that may be suspended
    sent       \* per chat and user: the messages sent to the bot so far, kept
               \* while they begin one of the Scripts

\* The conversation and the globals of new_round.py.
new_round_vars == <<conv_state, round_name, round_start_date, round_duration>>

vars ==
    <<db, now, ret, window, reply, nr_state, rv_state, user_data, new_round_vars,
      save_round_calls, sent>>

wizard_vars == <<nr_state, rv_state, user_data, new_round_vars, sent>>

Reply(u, kind, text) == [to |-> u, kind |-> kind, text |-> text]

HasField(d, f) == f \in DOMAIN d

IsRoundDoc(d) == d.type = "round"

get_rounds ==
    LET results == SelectSeq(db, IsRoundDoc)
    IN  [i \in 1 .. Len(results) |->
            Round(results[i].name,
                  fromisoformat(results[i].start_date),
                  results[i].duration_days)]

\* A variant that stops comparing after the first stored round.
save_round_result_first_only(round) ==
    Len(get_rounds) = 0 \/ ~ overlaps_with(round, get_rounds[1])

\* What save_round returns when it runs to completion.
save_round_result(round) ==
    \A i \in 1 .. Len(get_rounds) : ~ overlaps_with(round, get_rounds[i])

\* save_round as two coroutines run it: each await gives the event loop
\* the chance to run the other, so the read of the rounds and the insert are
\* separate steps, with the rounds read kept in existing_rounds.
Callers == {1, 2}

NoCall == [pc |-> "idle", round |-> None, existing_rounds |-> <<>>, result |-> None]

\* Up to the second await: the rounds are read and compared.
save_round_get_rounds(p, round) ==
    /\ save_round_calls[p].pc = "idle"
    /\ save_round_calls' = [save_round_calls EXCEPT ![p] =
            IF save_round_result(round)
            THEN [pc |-> "insert", round |-> Some(round),
                  existing_rounds |-> get_rounds, result |-> None]
            ELSE [pc |-> "returned", round |-> Some(round),
                  existing_rounds |-> get_rounds, result |-> Some(FALSE)]]
    /\ UNCHANGED <<db, now, ret, window, reply, wizard_vars>>

\* From the second await: the insert and the return.
save_round_insert(p) ==
    /\ save_round_calls[p].pc = "insert"
    /\ db' = Append(db, to_dict(save_round_calls[p].round[1]))
    /\ save_round_calls' = [save_round_calls EXCEPT ![p] =
            [@ EXCEPT !.pc = "returned", !.result = Some(TRUE)]]
    /\ UNCHANGED <<now, ret, window, reply, wizard_vars>>

RoundNames == {<<"A">>, <<"B">>}

RoundArgs ==
    { Round(n, Day0 + s, d) : n \in RoundNames, s \in 0 .. MaxDate, d \in 1 .. MaxDuration }

\* self.overlaps_with(other), other.overlaps_with(self) and
\* self.overlaps_with(self), recorded.
OverlapsWith(self, other) ==
    /\ ret' = Some([call |-> "overlaps_with", self |-> self, other |-> other,
                    result |-> overlaps_with(self, other),
                    converse |-> overlaps_with(other, self),
                    itself |-> overlaps_with(self, self)])
    /\ UNCHANGED <<db, now, window, reply, wizard_vars, save_round_calls>>

save_round(round) ==
    /\ Len(db) < MaxDocs
    /\ IF save_round_result(round)
       THEN /\ db' = Append(db, to_dict(round))
            /\ ret' = Some(TRUE)
       ELSE /\ db' = db
            /\ ret' = Some(FALSE)
    /\ UNCHANGED <<now, window, reply, wizard_vars, save_round_calls>>

(***************************************************************************)
(* The clock and the game-day calendar (data.py).                          *)
(***************************************************************************)
TimesOfDay == {first_clue_time - 60, first_clue_time}     \* 05:59 and 06:00

Instants == { (Day0 + d) * SecondsPerDay + t : d \in 0 .. MaxDay, t \in TimesOfDay }

\* The times of day the calendar is exercised with: every hour, the seconds
\* around the cutoff, and the last second of the day.
FineTimes ==
    { h * 3600 : h \in 0 .. 23 }
        \cup {first_clue_time - 60, first_clue_time - 1, first_clue_time + 1,
              SecondsPerDay - 1}

date_of(instant) == instant \div SecondsPerDay      \* datetime.date()
time_of(instant) == instant % SecondsPerDay         \* datetime.time()
combine(d, t) == d * SecondsPerDay + t              \* datetime.combine().timestamp()

\* A variant that shifts at the cutoff instant too.
get_game_day_timestamps_le(target_date, current_time) ==
    LET start_date ==
            IF current_time # None /\ current_time[1] <= first_clue_time
            THEN target_date - 1
            ELSE target_date
    IN  << combine(start_date, first_clue_time),
           combine(start_date + 1, first_clue_time) >>

\* current_time is None or Some(time of day); a time object is always truthy.
get_game_day_timestamps(target_date, current_time) ==
    LET start_date ==
            IF current_time # None /\ current_time[1] < first_clue_time
            THEN target_date - 1
            ELSE target_date
    IN  << combine(start_date, first_clue_time),
           combine(start_date + 1, first_clue_time) >>

GetGameDayTimestamps(target_date, current_time) ==
    /\ window' = [called |-> TRUE, target_date |-> target_date,
                  current_time |-> current_time,
                  result |-> get_game_day_timestamps(target_date, current_time)]
    /\ UNCHANGED <<db, now, ret, reply, wizard_vars, save_round_calls>>

(***************************************************************************)
(* Texts.                                                                  *)
(***************************************************************************)
lower_char(c) ==
    CASE c = "A" -> "a" [] c = "B" -> "b" [] c = "N" -> "n" [] c = "Y" -> "y"
      [] OTHER -> c

lower(s) == [i \in 1 .. Len(s) |-> lower_char(s[i])]

\* Python's `needle in hay` for str.
contains(hay, needle) ==
    \E i \in 0 .. Len(hay) - Len(needle) :
        \A j \in 1 .. Len(needle) : hay[i + j] = needle[j]

IsSpace(c) == c = " "

\* str.strip().
strip(s) ==
    LET keep == { i \in 1 .. Len(s) : ~ IsSpace(s[i]) }
    IN  IF keep = {} THEN <<>>
        ELSE SubSeq(s, CHOOSE i \in keep : \A j \in keep : i <= j,
                       CHOOSE i \in keep : \A j \in keep : j <= i)

Digits == {"0", "1", "2", "3", "4", "5", "6", "7", "8", "9"}

DigitValue(c) ==
    CASE c = "0" -> 0 [] c = "1" -> 1 [] c = "2" -> 2 [] c = "3" -> 3
      [] c = "4" -> 4 [] c = "5" -> 5 [] c = "6" -> 6 [] c = "7" -> 7
      [] c = "8" -> 8 [] c = "9" -> 9

AllDigits(s) == s # <<>> /\ \A i \in 1 .. Len(s) : s[i] \in Digits

RECURSIVE DecimalValue(_)
DecimalValue(s) ==
    IF s = <<>> THEN 0
    ELSE 10 * DecimalValue(SubSeq(s, 1, Len(s) - 1)) + DigitValue(s[Len(s)])

\* int(str): surrounding whitespace and one sign are accepted; None stands
\* for ValueError.
int(s) ==
    LET t == strip(s)
        signed == t # <<>> /\ t[1] \in {"+", "-"}
        body == IF signed THEN Tail(t) ELSE t
    IN  IF ~ AllDigits(body) THEN None
        ELSE IF signed /\ t[1] = "-" THEN Some(0 - DecimalValue(body))
        ELSE Some(DecimalValue(body))

(***************************************************************************)
(* Guesses (data.py).                                                      *)
(***************************************************************************)
GuessTexts == {<<"a">>, <<"b">>}

Guess(guesser_id, guesser_name, guess_text, artist_name_correct, song_title_correct, timestamp) ==
    [guesser_id |-> guesser_id, guesser_name |-> guesser_name,
     guess_text |-> guess_text, artist_name_correct |-> artist_name_correct,
     song_title_correct |-> song_title_correct, timestamp |-> timestamp]

\* update.effective_user: first_name and last_name (empty when there is none).
first_name(u) == <<"u">>
last_name(u) == IF u = 1 THEN <<>> ELSE <<"x">>

full_name_from_update(u) ==
    IF last_name(u) # <<>> THEN first_name(u) \o <<" ">> \o last_name(u)
    ELSE first_name(u)

\* db.get(cond): the first matching document, or None.
FirstDoc(docs) == IF docs = <<>> THEN None ELSE Some(Head(docs))

get_todays_guess(guesser_id) ==
    LET w == get_game_day_timestamps(date_of(now), Some(time_of(now)))
        Match(d) == /\ d.type = "guess"
                    /\ HasField(d, "guesser_id") /\ d.guesser_id = guesser_id
                    /\ HasField(d, "timestamp")
                    /\ d.timestamp >= w[1]
                    /\ d.timestamp <= w[2]
        result == FirstDoc(SelectSeq(db, Match))
    IN  IF result # None THEN Some(result[1].guess_text) ELSE None

\* The documents marked_guesses_for_day finds for target_date.
guesses_in_window(target_date) ==
    LET w == get_game_day_timestamps(target_date, None)
        Match(d) == /\ d.type = "guess"
                    /\ HasField(d, "timestamp")
                    /\ d.timestamp >= w[1]
                    /\ d.timestamp <= w[2]
    IN  SelectSeq(db, Match)

\* A variant that compares with the guess text as it was typed.
marked_guesses_for_day_as_typed(target_date, song_title, artist_name) ==
    LET results == guesses_in_window(target_date)
    IN  [i \in 1 .. Len(results) |->
            Guess(results[i].guesser_id,
                  results[i].guesser_name,
                  results[i].guess_text,
                  contains(results[i].guess_text, lower(artist_name)),
                  contains(results[i].guess_text, lower(song_title)),
                  results[i].timestamp)]

marked_guesses_for_day(target_date, song_title, artist_name) ==
    LET results == guesses_in_window(target_date)
    IN  [i \in 1 .. Len(results) |->
            Guess(results[i].guesser_id,
                  results[i].guesser_name,
                  results[i].guess_text,
                  contains(lower(results[i].guess_text), lower(artist_name)),
                  contains(lower(results[i].guess_text), lower(song_title)),
                  results[i].timestamp)]

\* A call of marked_guesses_for_day, its arguments and its result recorded.
MarkedGuessesForDay(target_date, song_title, artist_name) ==
    /\ ret' = Some([target_date |-> target_date, song_title |-> song_title,
                    artist_name |-> artist_name,
                    result |-> marked_guesses_for_day(target_date, song_title,
                                                      artist_name)])
    /\ UNCHANGED <<db, now, window, reply, wizard_vars, save_round_calls>>

create_guess(guesser_id, guesser_name, guess_text) ==
    db' = Append(db,
            [type |-> "guess", guesser_id |-> guesser_id,
             guesser_name |-> guesser_name, guess_text |-> guess_text,
             timestamp |-> now,
             artist_name_correct |-> None, song_title_correct |-> None])

\* The condition of the update: the guess documents of the guesser with
\* the text of the guess.
MarkingMatch(d, guess) ==
    /\ d.type = "guess"
    /\ HasField(d, "guesser_id") /\ d.guesser_id = guess.guesser_id
    /\ HasField(d, "guess_text") /\ d.guess_text = guess.guess_text

\* db.update(fields, cond): every matching document takes the fields.
db_update_marking(store, guess) ==
    [i \in 1 .. Len(store) |->
        IF MarkingMatch(store[i], guess)
        THEN [store[i] EXCEPT !.artist_name_correct = Some(guess.artist_name_correct),
                              !.song_title_correct = Some(guess.song_title_correct)]
        ELSE store[i]]

\* The store after update_guesses_marking(guesses): one update for each
\* guess, in the order of the list.
RECURSIVE update_guesses_marking(_, _)
update_guesses_marking(store, guesses) ==
    IF guesses = <<>> THEN store
    ELSE update_guesses_marking(db_update_marking(store, Head(guesses)), Tail(guesses))

(***************************************************************************)
(* /guess (guess_conversation.py and gpr_quiz_bot.py).  Both handlers      *)
(* first forward the message to the guesses channel, which is outside the  *)
(* state modelled here; bot_data['db'] is taken to be the db.json that     *)
(* data.py and gpr_quiz_bot.py open.                                       *)
(***************************************************************************)
\* The lookup both handlers make: the first guess document with this user_id.
UserIdGuess(u) ==
    LET Match(d) == HasField(d, "user_id") /\ d.user_id = u /\ d.type = "guess"
    IN  FirstDoc(SelectSeq(db, Match))

\* guess_conversation.py; the message text is "/guess " followed by guess.
guess_command(u, guess) ==
    LET result == UserIdGuess(u)
    IN  /\ Len(db) < MaxDocs
        /\ IF result = None
           THEN /\ create_guess(u, full_name_from_update(u), guess)
                /\ reply' = Reply(u, "recorded", guess)
           ELSE /\ db' = db
                /\ reply' = Reply(u, "already", result[1].guess)
        /\ UNCHANGED <<now, ret, window, wizard_vars, save_round_calls>>

\* gpr_quiz_bot.py: the same command in the module whose main() registers it.
bot_guess_command(u, guess) ==
    LET result == UserIdGuess(u)
    IN  /\ Len(db) < MaxDocs
        /\ IF result = None
           THEN /\ db' = Append(db,
                        [type |-> "guess", username |-> first_name(u),
                         full_name |-> full_name_from_update(u),
                         user_id |-> u, date |-> now, guess |-> guess])
                /\ reply' = Reply(u, "recorded", guess)
           ELSE /\ db' = db
                /\ reply' = Reply(u, "already", result[1].guess)
        /\ UNCHANGED <<now, ret, window, wizard_vars, save_round_calls>>

\* gpr_quiz_bot.py /start: a greeting that mentions the user.
start(u) ==
    /\ reply' = Reply(u, "hi", full_name_from_update(u))
    /\ UNCHANGED <<db, now, ret, window, wizard_vars, save_round_calls>>

\* gpr_quiz_bot.py /wipe: db.truncate() leaves no document.
wipe_command(u) ==
    /\ db' = <<>>
    /\ reply' = Reply(u, "wiped", <<>>)
    /\ UNCHANGED <<now, ret, window, wizard_vars, save_round_calls>>

\* gpr_quiz_bot.py: a text that is no command and that no conversation of
\* the user takes is answered with how to guess.
no_command_issued(u) ==
    /\ conv_state[u] = "END" /\ rv_state[u] = "END"
    /\ reply' = Reply(u, "how_to_guess", <<>>)
    /\ UNCHANGED <<db, now, ret, window, nr_state, rv_state, user_data,
                   new_round_vars, save_round_calls>>

(***************************************************************************)
(* context.user_data and the conversation states.                          *)
(***************************************************************************)
\* What user_data has under a key that was never assigned: user_data[key]
\* raises KeyError and user_data.get(key, default) is the default.  None
\* under a key is the value None assigned to it, which both return.
Missing == <<"no", "key">>

\* What user_data has under a key that holds no value: the key was never
\* assigned, or None was assigned to it.
Nothing == {None, Missing}

\* The dict a user's user_data starts as: no key assigned.
EmptyUserData ==
    [new_round |-> Missing, current_review |-> Missing, rounds |-> Missing,
     selected_round |-> Missing, round_days |-> Missing,
     current_guesses |-> Missing, selected_guess_num |-> Missing]

\* A datetime: a date and a time of day.
DateTime(d, t) == [date |-> d, time |-> t]

\* datetime + timedelta(days = n).
plus_days(dt, n) == DateTime(dt.date + n, dt.time)

SetData(u, key, value) ==
    user_data' = [user_data EXCEPT ![u] = [@ EXCEPT ![key] = value]]

(***************************************************************************)
(* The round creation wizard (new_round_conversation.py).                  *)
(***************************************************************************)
days_in_month(y, m) ==
    IF m = 2
    THEN IF (y % 4 = 0 /\ y % 100 # 0) \/ y % 400 = 0 THEN 29 ELSE 28
    ELSE IF m \in {4, 6, 9, 11} THEN 30 ELSE 31

\* datetime.strptime(date_string, "%d/%m/%y"), None standing for ValueError:
\* %d is 1 or 2 digits (or a space and a digit) in 1 .. 31, %m is 1 or 2
\* digits in 1 .. 12, %y is 2 digits, 00-68 being 2000-2068.
parse_date(date_string) ==
    LET slashes == { i \in 1 .. Len(date_string) : date_string[i] = "/" }
    IN  IF Cardinality(slashes) # 2 THEN None
        ELSE
        LET p1 == CHOOSE i \in slashes : \A j \in slashes : i <= j
            p2 == CHOOSE i \in slashes : \A j \in slashes : j <= i
            dd0 == SubSeq(date_string, 1, p1 - 1)
            dd == IF Len(dd0) = 2 /\ dd0[1] = " " THEN Tail(dd0) ELSE dd0
            mm == SubSeq(date_string, p1 + 1, p2 - 1)
            yy == SubSeq(date_string, p2 + 1, Len(date_string))
        IN  IF ~ (AllDigits(dd) /\ AllDigits(mm) /\ AllDigits(yy)) THEN None
            ELSE IF Len(dd0) > 2 \/ Len(mm) > 2 \/ Len(yy) # 2 THEN None
            ELSE
            LET d == DecimalValue(dd)
                m == DecimalValue(mm)
                y == IF DecimalValue(yy) <= 68 THEN 2000 + DecimalValue(yy)
                     ELSE 1900 + DecimalValue(yy)
            IN  IF m < 1 \/ m > 12 \/ d < 1 \/ d > 31 THEN None
                ELSE IF d > days_in_month(y, m) THEN None
                ELSE Some(DateTime(days_from_civil(y, m, d), 0))

parse_positive_int(number_string) ==
    LET num == int(number_string)
    IN  IF num # None /\ num[1] > 0 THEN num ELSE None

WeekdayNames ==
    <<"Monday", "Tuesday", "Wednesday", "Thursday", "Friday", "Saturday", "Sunday">>

MonthNames ==
    <<"January", "February", "March", "April", "May", "June", "July",
      "August", "September", "October", "November", "December">>

\* strftime("%A"): 1970-01-01 was a Thursday.
weekday_name(d) == WeekdayNames[((d + 3) % 7) + 1]

\* A variant that goes by the last digit alone.
day_suffix_by_last_digit(day) ==
    CASE day % 10 = 1 -> "st" [] day % 10 = 2 -> "nd" [] day % 10 = 3 -> "rd"
      [] OTHER -> "th"

day_suffix(day) ==
    IF 11 <= day /\ day <= 13 THEN "th"
    ELSE CASE day % 10 = 1 -> "st" [] day % 10 = 2 -> "nd" [] day % 10 = 3 -> "rd"
           [] OTHER -> "th"

\* "%A %-d{suffix} %B" as its four parts.
format_date_with_suffix(date_obj) ==
    LET ymd == civil_from_days(date_obj.date)
    IN  << weekday_name(date_obj.date), ymd[3], day_suffix(ymd[3]), MonthNames[ymd[2]] >>

\* A call of format_date_with_suffix, its argument and its result recorded.
FormatDateWithSuffix(date_obj) ==
    /\ ret' = Some([call |-> "format_date_with_suffix", date_obj |-> date_obj,
                    result |-> format_date_with_suffix(date_obj)])
    /\ UNCHANGED <<db, now, window, reply, wizard_vars, save_round_calls>>

get_end_date(start_date, duration_days) == plus_days(start_date, duration_days - 1)

\* Round.end_date of a round, and get_end_date for the same start (a datetime
\* at the time of day given) and the same duration, recorded.
EndDate(round, time) ==
    /\ ret' = Some([call |-> "end_date", round |-> round, time |-> time,
                    end_date |-> end_date(round),
                    prompt_end |-> get_end_date(DateTime(round.start_date, time),
                                                round.duration_days)])
    /\ UNCHANGED <<db, now, window, reply, wizard_vars, save_round_calls>>

\* `if save_round(round_data):` calls the coroutine function without await:
\* the value tested is the coroutine object, which is true, and the body of
\* save_round never runs.
unawaited_save_round(round) == TRUE

newround_command(u) ==
    /\ SetData(u, "new_round",
               Some(Round(<<>>, DateTime(date_of(now), time_of(now)), 0)))
    /\ reply' = Reply(u, "ask_name", <<>>)
    /\ nr_state' = [nr_state EXCEPT ![u] = "ROUND_NAME_STATE"]
    /\ UNCHANGED <<db, now, ret, window, rv_state, new_round_vars, save_round_calls>>

handle_round_name(u, input_text) ==
    /\ nr_state[u] = "ROUND_NAME_STATE"
    /\ IF input_text = <<>> \/ strip(input_text) = <<>>
       THEN /\ reply' = Reply(u, "ask_name", <<>>)
            /\ UNCHANGED <<nr_state, user_data>>
       ELSE IF user_data[u].new_round = Missing
       THEN /\ reply' = Reply(u, "KeyError", <<>>)
            /\ UNCHANGED <<nr_state, user_data>>
       ELSE IF user_data[u].new_round = None
       THEN \* AttributeError: None has no name.
            /\ reply' = Reply(u, "AttributeError", <<>>)
            /\ UNCHANGED <<nr_state, user_data>>
       ELSE /\ SetData(u, "new_round",
                       Some([user_data[u].new_round[1] EXCEPT !.name = strip(input_text)]))
            /\ reply' = Reply(u, "ask_date", <<>>)
            /\ nr_state' = [nr_state EXCEPT ![u] = "START_DATE_STATE"]
    /\ UNCHANGED <<db, now, ret, window, rv_state, new_round_vars, save_round_calls>>

handle_start_date(u, input_text) ==
    /\ nr_state[u] = "START_DATE_STATE"
    /\ LET start_date == parse_date(input_text)
       IN  IF start_date = None
           THEN /\ reply' = Reply(u, "bad_date", <<>>)
                /\ UNCHANGED <<nr_state, user_data>>
           ELSE IF user_data[u].new_round = Missing
           THEN /\ reply' = Reply(u, "KeyError", <<>>)
                /\ UNCHANGED <<nr_state, user_data>>
           ELSE IF user_data[u].new_round = None
           THEN \* AttributeError: None has no start_date.
                /\ reply' = Reply(u, "AttributeError", <<>>)
                /\ UNCHANGED <<nr_state, user_data>>
           ELSE /\ SetData(u, "new_round",
                           Some([user_data[u].new_round[1] EXCEPT !.start_date = start_date[1]]))
                /\ reply' = Reply(u, "ask_duration", <<>>)
                /\ nr_state' = [nr_state EXCEPT ![u] = "DURATION_STATE"]
    /\ UNCHANGED <<db, now, ret, window, rv_state, new_round_vars, save_round_calls>>

handle_duration(u, input_text) ==
    /\ nr_state[u] = "DURATION_STATE"
    /\ LET duration == parse_positive_int(input_text)
           round_data == user_data[u].new_round[1]
       IN  IF duration = None
           THEN /\ reply' = Reply(u, "bad_duration", <<>>)
                /\ UNCHANGED <<nr_state, user_data>>
           ELSE IF user_data[u].new_round = Missing
           THEN /\ reply' = Reply(u, "KeyError", <<>>)
                /\ UNCHANGED <<nr_state, user_data>>
           ELSE IF user_data[u].new_round = None
           THEN \* AttributeError: None has no duration_days.
                /\ reply' = Reply(u, "AttributeError", <<>>)
                /\ UNCHANGED <<nr_state, user_data>>
           ELSE /\ SetData(u, "new_round",
                           Some([round_data EXCEPT !.duration_days = duration[1]]))
                /\ reply' = Reply(u, "confirm",
                                  << round_data.name,
                                     format_date_with_suffix(round_data.start_date),
                                     format_date_with_suffix(
                                         get_end_date(round_data.start_date, duration[1])) >>)
                /\ nr_state' = [nr_state EXCEPT ![u] = "CONFIRM_CREATE_STATE"]
    /\ UNCHANGED <<db, now, ret, window, rv_state, new_round_vars, save_round_calls>>

handle_confirm_create(u, text) ==
    /\ nr_state[u] = "CONFIRM_CREATE_STATE"
    /\ LET input_text == lower(text)
           round_data == user_data[u].new_round
       IN  IF input_text = <<"y">> /\ round_data = Missing
           THEN /\ reply' = Reply(u, "KeyError", <<>>)
                /\ UNCHANGED <<nr_state, user_data>>
           ELSE /\ IF input_text = <<"y">>
                   THEN IF unawaited_save_round(round_data)
                        THEN /\ SetData(u, "new_round", None)
                             /\ reply' = Reply(u, "created", <<>>)
                        ELSE /\ SetData(u, "new_round", None)
                             /\ reply' = Reply(u, "overlap", <<>>)
                   ELSE /\ SetData(u, "new_round", None)
                        /\ reply' = Reply(u, "cancelled", <<>>)
                /\ nr_state' = [nr_state EXCEPT ![u] = "END"]
    /\ UNCHANGED <<db, now, ret, window, rv_state, new_round_vars, save_round_calls>>

\* The fallback of the /newround conversation.
cancel_command(u) ==
    /\ nr_state[u] # "END"
    /\ SetData(u, "new_round", None)
    /\ reply' = Reply(u, "cancelled", <<>>)
    /\ nr_state' = [nr_state EXCEPT ![u] = "END"]
    /\ UNCHANGED <<db, now, ret, window, rv_state, new_round_vars, save_round_calls>>

NameInputs == { <<"A">>, <<" ", "B", " ">>, <<" ">> }

DateInputs ==
    { <<"0", "1", "/", "0", "3", "/", "2", "4">>,
      <<"3", "/", "3", "/", "2", "4">>,
      <<"3", "1", "/", "0", "2", "/", "2", "4">>,
      <<"x">> }

DurationInputs == { <<"2">>, <<" ", "1">>, <<"0">>, <<"-", "1">>, <<"x">> }

ConfirmInputs == { <<"y">>, <<"Y">>, <<"n">> }

\* A round that an earlier run stored: 1 and 2 March 2024.
SeedRound == Round(<<"S">>, Day0, 2)

(***************************************************************************)
(* The round creation wizard of new_round.py, the module gpr_quiz_bot.py   *)
(* imports.  It keeps the round in three globals of the module, which every *)
(* user's conversation reads and writes, and it stores nothing.  Its state *)
(* handlers are MessageHandler(None, ...): the filter None lets every      *)
(* message through, a command included, and a ConversationHandler tries    *)
(* the entry points (allow_reentry), then the handlers of the state, then  *)
(* the fallbacks.  /start, /guess, /guesses and /wipe are taken by the     *)
(* handlers main() registers before the conversation.                      *)
(***************************************************************************)
NewroundText == <<"/", "n", "e", "w", "r", "o", "u", "n", "d">>

CancelText == <<"/", "c", "a", "n", "c", "e", "l">>

\* MessageHandler(None, callback): no filter, every message is handled.
filters_None(text) == TRUE

new_round_newround_command(u) ==
    /\ reply' = Reply(u, "ask_name", <<>>)
    /\ conv_state' = [conv_state EXCEPT ![u] = "ROUND_NAME_STATE"]
    /\ UNCHANGED <<round_name, round_start_date, round_duration>>
    /\ UNCHANGED <<db, now, ret, window, nr_state, rv_state, user_data, save_round_calls>>

new_round_handle_round_name(u, input) ==
    /\ conv_state[u] = "ROUND_NAME_STATE" /\ filters_None(input)
    /\ input # NewroundText
    /\ IF input # <<>> /\ strip(input) # <<>>
       THEN /\ round_name' = Some(input)
            /\ reply' = Reply(u, "ask_date", <<>>)
            /\ conv_state' = [conv_state EXCEPT ![u] = "START_DATE_STATE"]
       ELSE /\ round_name' = round_name
            /\ reply' = Reply(u, "ask_name", <<>>)
            /\ conv_state' = [conv_state EXCEPT ![u] = "ROUND_NAME_STATE"]
    /\ UNCHANGED <<round_start_date, round_duration>>
    /\ UNCHANGED <<db, now, ret, window, nr_state, rv_state, user_data, save_round_calls>>

\* The global is assigned before the result is looked at.
new_round_handle_start_date(u, input) ==
    /\ conv_state[u] = "START_DATE_STATE" /\ filters_None(input)
    /\ input # NewroundText
    /\ round_start_date' = parse_date(input)
    /\ IF round_start_date' = None
       THEN /\ reply' = Reply(u, "bad_date", <<>>)
            /\ conv_state' = [conv_state EXCEPT ![u] = "START_DATE_STATE"]
       ELSE /\ reply' = Reply(u, "ask_duration", <<>>)
            /\ conv_state' = [conv_state EXCEPT ![u] = "DURATION_STATE"]
    /\ UNCHANGED <<round_name, round_duration>>
    /\ UNCHANGED <<db, now, ret, window, nr_state, rv_state, user_data, save_round_calls>>

\* As above for the duration.  get_end_date(None, n) raises TypeError: the
\* handler ends there, with no reply and the conversation where it was.
new_round_handle_duration(u, input) ==
    /\ conv_state[u] = "DURATION_STATE" /\ filters_None(input)
    /\ input # NewroundText
    /\ round_duration' = parse_positive_int(input)
    /\ IF round_duration' = None
       THEN /\ reply' = Reply(u, "bad_duration", <<>>)
            /\ conv_state' = [conv_state EXCEPT ![u] = "DURATION_STATE"]
       ELSE IF round_start_date = None
       THEN /\ reply' = Reply(u, "TypeError", <<>>)
            /\ conv_state' = conv_state
       ELSE /\ reply' = Reply(u, "confirm",
                              << round_name,
                                 format_date_with_suffix(round_start_date[1]),
                                 format_date_with_suffix(
                                     get_end_date(round_start_date[1],
                                                  round_duration'[1])) >>)
            /\ conv_state' = [conv_state EXCEPT ![u] = "CONFIRM_CREATE_STATE"]
    /\ UNCHANGED <<round_name, round_start_date>>
    /\ UNCHANGED <<db, now, ret, window, nr_state, rv_state, user_data, save_round_calls>>

reset_variables ==
    /\ round_name' = None
    /\ round_start_date' = None
    /\ round_duration' = None

\* Neither branch returns a state: the conversation stays where it is.
new_round_handle_confirm_create(u, input) ==
    /\ conv_state[u] = "CONFIRM_CREATE_STATE" /\ filters_None(input)
    /\ input # NewroundText
    /\ IF input = <<"y">>
       THEN /\ reply' = Reply(u, "created", <<>>)
            /\ UNCHANGED <<round_name, round_start_date, round_duration>>
       ELSE /\ reset_variables
            /\ reply' = Reply(u, "cancelled", <<>>)
    /\ conv_state' = conv_state
    /\ UNCHANGED <<db, now, ret, window, nr_state, rv_state, user_data, save_round_calls>>

\* The fallback.  It is tried when no handler of the state takes the
\* message, and the handler of every state takes every message.
new_round_cancel_command(u) ==
    /\ conv_state[u] # "END" /\ ~ filters_None(CancelText)
    /\ reset_variables
    /\ reply' = Reply(u, "cancelled", <<>>)
    /\ conv_state' = [conv_state EXCEPT ![u] = "END"]
    /\ UNCHANGED <<db, now, ret, window, nr_state, rv_state, user_data, save_round_calls>>

\* A message other than /newround from a user whose conversation is in a
\* state: the handler of that state.
new_round_message(u, input) ==
    \/ new_round_handle_round_name(u, input)
    \/ new_round_handle_start_date(u, input)
    \/ new_round_handle_duration(u, input)
    \/ new_round_handle_confirm_create(u, input)

\* What users send: a name, a blank, a date, durations, answers, /cancel.
NewRoundTexts ==
    { <<"A">>, <<" ">>, <<"0", "1", "/", "0", "3", "/", "2", "4">>,
      <<"2">>, <<"0">>, <<"y">>, <<"Y">>, CancelText }

(***************************************************************************)
(* The review wizard (review_conversation.py), handler by handler as the   *)
(* code runs: a handler that raises returns no state, so the conversation  *)
(* stays where it was with what the handler had stored before it raised.   *)
(* main() adds the /newround conversation before the /review conversation, *)
(* so a message reaches the review wizard of a user only while that user's *)
(* /newround conversation is in no state.  gpr_quiz_bot.py imports         *)
(* review_conversation_handler from a module named review, which is not    *)
(* among the sources; review_conversation.py defines the function of that  *)
(* name and is taken to be that module.                                    *)
(***************************************************************************)
Review(artist_name, song_title, day_to_review) ==
    [artist_name |-> artist_name, song_title |-> song_title,
     day_to_review |-> day_to_review]

\* The dates of a round: start_date + 0 .. duration_days - 1.
get_days_for_round(round) ==
    [x \in 1 .. round.duration_days |-> round.start_date + (x - 1)]

parse_int_option(input_text, max_value) ==
    LET num == int(input_text)
    IN  IF num # None /\ 1 <= num[1] /\ num[1] <= max_value THEN num ELSE None

\* main() adds the conversation of new_round.py before that of the review:
\* a message other than /newround reaches the review conversation when the
\* first is in no state, for in a state it takes every message.
reaches_review(c) == conv_state[c] = "END"

\* user_data.get(key, []): what is under the key, the list or the None
\* assigned to it, and the empty list where the key was never assigned.
GetList(u, key) ==
    IF user_data[u][key] = Missing THEN Some(<<>>) ELSE user_data[u][key]

\* str() of an optional text, as an f-string formats it.
str(text) == IF text = None THEN <<"N", "o", "n", "e">> ELSE text[1]

\* list[i] of Python, i counted from 0, and from the end when negative: the
\* place of the item in 1 .. Len(list), and 0 where list[i] raises IndexError.
index(list, i) ==
    IF 0 <= i /\ i < Len(list) THEN i + 1
    ELSE IF i < 0 /\ 0 - i <= Len(list) THEN Len(list) + i + 1
    ELSE 0

\* What send_review_message renders for the review and guesses given.
review_message(u, current_review, guesses) ==
    Reply(u, "review",
          << weekday_name(current_review.day_to_review[1]),
             str(current_review.song_title),
             str(current_review.artist_name),
             [i \in 1 .. Len(guesses) |->
                 << guesses[i].guess_text, guesses[i].song_title_correct,
                    guesses[i].artist_name_correct, guesses[i].guesser_name >>] >>)

\* get_rounds() is called without await: rounds is a coroutine that never
\* runs.  The empty review is stored, then len(rounds) raises TypeError:
\* no rounds are stored, nothing is sent and the handler returns no state.
review_command(u) ==
    /\ reaches_review(u)
    /\ SetData(user_of(u), "current_review", Some(Review(None, None, None)))
    /\ reply' = Reply(u, "TypeError", <<>>)
    /\ UNCHANGED rv_state
    /\ UNCHANGED <<db, now, ret, window, nr_state, new_round_vars, save_round_calls>>

handle_round_number(u, input_text) ==
    /\ rv_state[u] = "ROUND_NUMBER_STATE" /\ reaches_review(u)
    /\ LET rounds_or_None == GetList(user_of(u), "rounds")
           rounds == rounds_or_None[1]
           round_num == parse_int_option(input_text, Len(rounds))
       IN  IF rounds_or_None = None
           THEN \* len(None) raises TypeError.
                /\ reply' = Reply(u, "TypeError", <<>>)
                /\ UNCHANGED <<rv_state, user_data>>
           ELSE IF round_num = None
           THEN /\ reply' = Reply(u, "bad_round", <<Len(rounds)>>)
                /\ UNCHANGED <<rv_state, user_data>>
           ELSE LET selected_round == rounds[round_num[1]]
                    days == get_days_for_round(selected_round)
                IN  /\ user_data' = [user_data EXCEPT ![user_of(u)] =
                            [@ EXCEPT !.selected_round = Some(selected_round),
                                      !.round_days = Some(days)]]
                    /\ reply' = Reply(u, "ask_day",
                                      [i \in 1 .. Len(days) |-> weekday_name(days[i])])
                    /\ rv_state' = [rv_state EXCEPT ![u] = "DAY_NUMBER_STATE"]
    /\ UNCHANGED <<db, now, ret, window, nr_state, new_round_vars, save_round_calls>>

handle_day_number(u, input_text) ==
    /\ rv_state[u] = "DAY_NUMBER_STATE" /\ reaches_review(u)
    /\ LET days_or_None == GetList(user_of(u), "round_days")
           days == days_or_None[1]
           day_num == parse_int_option(input_text, Len(days))
       IN  IF days_or_None = None
           THEN \* len(None) raises TypeError.
                /\ reply' = Reply(u, "TypeError", <<>>)
                /\ UNCHANGED <<rv_state, user_data>>
           ELSE IF day_num = None
           THEN /\ reply' = Reply(u, "bad_day", <<Len(days)>>)
                /\ UNCHANGED <<rv_state, user_data>>
           ELSE IF user_data[user_of(u)].current_review = Missing
           THEN /\ reply' = Reply(u, "KeyError", <<>>)
                /\ UNCHANGED <<rv_state, user_data>>
           ELSE \* selected_day is a date, as get_days_for_round makes it:
                \* selected_day.date() raises AttributeError before anything
                \* is stored or sent, and the handler returns no state.
                /\ reply' = Reply(u, "AttributeError", <<>>)
                /\ UNCHANGED <<rv_state, user_data>>
    /\ UNCHANGED <<db, now, ret, window, nr_state, new_round_vars, save_round_calls>>

handle_artist_name(u, input_text) ==
    /\ rv_state[u] = "ARTIST_NAME_STATE" /\ reaches_review(u)
    /\ IF input_text = <<>> \/ strip(input_text) = <<>>
       THEN /\ reply' = Reply(u, "bad_artist", <<>>)
            /\ UNCHANGED <<rv_state, user_data>>
       ELSE LET current_review == user_data[user_of(u)].current_review
            IN  IF current_review = Missing
                THEN /\ reply' = Reply(u, "KeyError", <<>>)
                     /\ UNCHANGED <<rv_state, user_data>>
                ELSE IF current_review = None
                THEN \* AttributeError: None has no artist_name.
                     /\ reply' = Reply(u, "AttributeError", <<>>)
                     /\ UNCHANGED <<rv_state, user_data>>
                ELSE /\ SetData(user_of(u), "current_review",
                                Some([current_review[1]
                                         EXCEPT !.artist_name = Some(strip(input_text))]))
                     /\ IF current_review[1].day_to_review = None
                        THEN \* AttributeError: None has no strftime.
                             /\ reply' = Reply(u, "AttributeError", <<>>)
                             /\ UNCHANGED rv_state
                        ELSE /\ reply' = Reply(u, "ask_title",
                                      <<weekday_name(current_review[1].day_to_review[1])>>)
                             /\ rv_state' = [rv_state EXCEPT ![u] = "SONG_TITLE_STATE"]
    /\ UNCHANGED <<db, now, ret, window, nr_state, new_round_vars, save_round_calls>>

handle_song_title(u, input_text) ==
    /\ rv_state[u] = "SONG_TITLE_STATE" /\ reaches_review(u)
    /\ IF input_text = <<>> \/ strip(input_text) = <<>>
       THEN /\ reply' = Reply(u, "bad_title", <<>>)
            /\ UNCHANGED <<rv_state, user_data>>
       ELSE IF user_data[user_of(u)].current_review = Missing
       THEN /\ reply' = Reply(u, "KeyError", <<>>)
            /\ UNCHANGED <<rv_state, user_data>>
       ELSE IF user_data[user_of(u)].current_review = None
       THEN \* AttributeError: None has no song_title.
            /\ reply' = Reply(u, "AttributeError", <<>>)
            /\ UNCHANGED <<rv_state, user_data>>
       ELSE \* The title is stored.  data.py defines no guesses_for_day (its
            \* function for the guesses of a day is marked_guesses_for_day), so
            \* the name is unbound when line 173 calls it and the call raises
            \* NameError: no guesses are cached, nothing is sent and the handler
            \* returns no state.
            /\ SetData(user_of(u), "current_review",
                       Some([user_data[user_of(u)].current_review[1]
                                EXCEPT !.song_title = Some(strip(input_text))]))
            /\ reply' = Reply(u, "NameError", <<>>)
            /\ UNCHANGED rv_state
    /\ UNCHANGED <<db, now, ret, window, nr_state, new_round_vars, save_round_calls>>

handle_fix_marking(u, input_text) ==
    /\ rv_state[u] = "FIX_MARKING_STATE" /\ reaches_review(u)
    /\ LET guesses_or_None == GetList(user_of(u), "current_guesses")
           guesses == guesses_or_None[1]
           guess_num == parse_int_option(input_text, Len(guesses))
       IN  IF guesses_or_None = None
           THEN \* len(None) raises TypeError; done_command leaves None here.
                /\ reply' = Reply(u, "TypeError", <<>>)
                /\ UNCHANGED <<rv_state, user_data>>
           ELSE IF guess_num = None
           THEN /\ reply' = Reply(u, "bad_guess", <<Len(guesses)>>)
                /\ UNCHANGED <<rv_state, user_data>>
           ELSE /\ SetData(user_of(u), "selected_guess_num", guess_num)
                /\ reply' = Reply(u, "ask_artist_correct",
                                  guesses[guess_num[1]].guesser_name)
                /\ rv_state' = [rv_state EXCEPT ![u] = "REMARK_ARTIST_NAME_STATE"]
    /\ UNCHANGED <<db, now, ret, window, nr_state, new_round_vars, save_round_calls>>

\* guess_num = user_data['selected_guess_num'], guesses =
\* user_data['current_guesses'] and guess = guesses[guess_num - 1] (lines
\* 230-232, 236-238 and 254-256): the exception they raise, "none" when they
\* raise none.  A key never assigned raises KeyError; None for the number or
\* for the list raises TypeError.
selected_guess_raises(u) ==
    LET guess_num == user_data[u].selected_guess_num
        guesses == user_data[u].current_guesses
    IN  IF guess_num = Missing \/ guesses = Missing THEN "KeyError"
        ELSE IF guess_num = None \/ guesses = None THEN "TypeError"
        ELSE IF index(guesses[1], guess_num[1] - 1) = 0 THEN "IndexError"
        ELSE "none"

\* The place in current_guesses of guesses[guess_num - 1].
selected_guess(u) ==
    index(user_data[u].current_guesses[1], user_data[u].selected_guess_num[1] - 1)

\* A variant in which "n" marks the whole guess wrong.
handle_remark_artist_name_whole_guess(u, text) ==
    /\ rv_state[u] = "REMARK_ARTIST_NAME_STATE" /\ reaches_review(u)
    /\ LET input_text == lower(text)
           guess_num == user_data[user_of(u)].selected_guess_num[1]
           guesses == user_data[user_of(u)].current_guesses[1]
       IN  IF input_text \notin {<<"y">>, <<"n">>}
           THEN /\ reply' = Reply(u, "bad_yes_no", <<>>)
                /\ UNCHANGED <<rv_state, user_data>>
           ELSE /\ IF input_text = <<"n">>
                   THEN SetData(user_of(u), "current_guesses",
                                Some([guesses EXCEPT ![guess_num].artist_name_correct = FALSE,
                                                     ![guess_num].song_title_correct = FALSE]))
                   ELSE UNCHANGED user_data
                /\ reply' = Reply(u, "ask_title_correct", guesses[guess_num].guesser_name)
                /\ rv_state' = [rv_state EXCEPT ![u] = "REMARK_SONG_TITLE_STATE"]
    /\ UNCHANGED <<db, now, ret, window, nr_state, new_round_vars, save_round_calls>>

\* A variant that sets the mark to the answer, true for y and false for n.
handle_remark_artist_name_sets_answer(u, text) ==
    /\ rv_state[u] = "REMARK_ARTIST_NAME_STATE" /\ reaches_review(u)
    /\ LET input_text == lower(text)
           guess_num == user_data[user_of(u)].selected_guess_num[1]
           guesses == user_data[user_of(u)].current_guesses[1]
       IN  IF input_text \notin {<<"y">>, <<"n">>}
           THEN /\ reply' = Reply(u, "bad_yes_no", <<>>)
                /\ UNCHANGED <<rv_state, user_data>>
           ELSE /\ SetData(user_of(u), "current_guesses",
                           Some([guesses EXCEPT ![guess_num].artist_name_correct =
                                                    (input_text = <<"y">>)]))
                /\ reply' = Reply(u, "ask_title_correct", guesses[guess_num].guesser_name)
                /\ rv_state' = [rv_state EXCEPT ![u] = "REMARK_SONG_TITLE_STATE"]
    /\ UNCHANGED <<db, now, ret, window, nr_state, new_round_vars, save_round_calls>>

handle_remark_artist_name(u, text) ==
    /\ rv_state[u] = "REMARK_ARTIST_NAME_STATE" /\ reaches_review(u)
    /\ LET input_text == lower(text)
           raised == selected_guess_raises(user_of(u))
           guess_num == selected_guess(user_of(u))
           guesses == user_data[user_of(u)].current_guesses[1]
       IN  IF input_text \notin {<<"y">>, <<"n">>}
           THEN /\ reply' = Reply(u, "bad_yes_no", <<>>)
                /\ UNCHANGED <<rv_state, user_data>>
           ELSE IF raised # "none"
           THEN \* Raised before any mark is set, for "n" and for "y".
                /\ reply' = Reply(u, raised, <<>>)
                /\ UNCHANGED <<rv_state, user_data>>
           ELSE /\ IF input_text = <<"n">>
                   THEN SetData(user_of(u), "current_guesses",
                                Some([guesses EXCEPT ![guess_num].artist_name_correct = FALSE]))
                   ELSE UNCHANGED user_data
                /\ reply' = Reply(u, "ask_title_correct", guesses[guess_num].guesser_name)
                /\ rv_state' = [rv_state EXCEPT ![u] = "REMARK_SONG_TITLE_STATE"]
    /\ UNCHANGED <<db, now, ret, window, nr_state, new_round_vars, save_round_calls>>

\* A variant that writes the answer through to the store.
handle_remark_song_title_write_through(u, text) ==
    /\ rv_state[u] = "REMARK_SONG_TITLE_STATE" /\ reaches_review(u)
    /\ LET input_text == lower(text)
           guess_num == user_data[user_of(u)].selected_guess_num[1]
           guesses == user_data[user_of(u)].current_guesses[1]
           remarked == IF input_text = <<"n">>
                       THEN [guesses EXCEPT ![guess_num].song_title_correct = FALSE]
                       ELSE guesses
       IN  IF input_text \notin {<<"y">>, <<"n">>}
           THEN /\ reply' = Reply(u, "bad_yes_no", <<>>)
                /\ UNCHANGED <<db, rv_state, user_data>>
           ELSE /\ SetData(user_of(u), "current_guesses", Some(remarked))
                /\ db' = update_guesses_marking(db, remarked)
                /\ reply' = review_message(u, user_data[user_of(u)].current_review[1], remarked)
                /\ rv_state' = [rv_state EXCEPT ![u] = "FIX_MARKING_STATE"]
    /\ UNCHANGED <<now, ret, window, nr_state, new_round_vars, save_round_calls>>

handle_remark_song_title(u, text) ==
    /\ rv_state[u] = "REMARK_SONG_TITLE_STATE" /\ reaches_review(u)
    /\ LET input_text == lower(text)
           raised == selected_guess_raises(user_of(u))
           guess_num == selected_guess(user_of(u))
           current_review == user_data[user_of(u)].current_review
           current_guesses == user_data[user_of(u)].current_guesses
           guesses == current_guesses[1]
           remarked == IF input_text = <<"n">>
                       THEN [guesses EXCEPT ![guess_num].song_title_correct = FALSE]
                       ELSE guesses
       IN  IF input_text \notin {<<"y">>, <<"n">>}
           THEN /\ reply' = Reply(u, "bad_yes_no", <<>>)
                /\ UNCHANGED <<rv_state, user_data>>
           ELSE IF input_text = <<"n">> /\ raised # "none"
           THEN \* Raised before the mark is set; "y" reads neither key here.
                /\ reply' = Reply(u, raised, <<>>)
                /\ UNCHANGED <<rv_state, user_data>>
           ELSE /\ IF input_text = <<"n">>
                   THEN SetData(user_of(u), "current_guesses", Some(remarked))
                   ELSE UNCHANGED user_data
                /\ IF current_review = Missing
                   THEN /\ reply' = Reply(u, "KeyError", <<>>)
                        /\ UNCHANGED rv_state
                   ELSE IF \/ current_review = None
                           \/ current_review[1].day_to_review = None
                   THEN \* AttributeError: there is no review, or no day in it.
                        /\ reply' = Reply(u, "AttributeError", <<>>)
                        /\ UNCHANGED rv_state
                   ELSE IF current_guesses = Missing
                   THEN \* send_review_message, after the line that announces
                        \* the updated marking is sent: user_data['current_guesses'].
                        /\ reply' = Reply(u, "KeyError", <<>>)
                        /\ UNCHANGED rv_state
                   ELSE IF current_guesses = None
                   THEN \* send_review_message: enumerate(None, 1) raises TypeError.
                        /\ reply' = Reply(u, "TypeError", <<>>)
                        /\ UNCHANGED rv_state
                   ELSE /\ reply' = review_message(u, current_review[1], remarked)
                        /\ rv_state' = [rv_state EXCEPT ![u] = "FIX_MARKING_STATE"]
    /\ UNCHANGED <<db, now, ret, window, nr_state, new_round_vars, save_round_calls>>

ReviewText == <<"/", "r", "e", "v", "i", "e", "w">>

DoneText == <<"/", "d", "o", "n", "e">>

\* filters.COMMAND: the text begins with a command.
filters_COMMAND(text) == text # <<>> /\ text[1] = "/"

\* A variant of the table with /done among the fallbacks.
review_conversation_handler_done_fallback(state, text) ==
    IF text = ReviewText THEN "review_command"
    ELSE IF state = "END" THEN "none"
    ELSE IF ~ filters_COMMAND(text)
    THEN CASE state = "ROUND_NUMBER_STATE" -> "handle_round_number"
           [] state = "DAY_NUMBER_STATE" -> "handle_day_number"
           [] state = "ARTIST_NAME_STATE" -> "handle_artist_name"
           [] state = "SONG_TITLE_STATE" -> "handle_song_title"
           [] state = "FIX_MARKING_STATE" -> "handle_fix_marking"
           [] state = "REMARK_ARTIST_NAME_STATE" -> "handle_remark_artist_name"
           [] state = "REMARK_SONG_TITLE_STATE" -> "handle_remark_song_title"
    ELSE IF text = DoneText THEN "done_command"
    ELSE IF text = CancelText THEN "cancel_command"
    ELSE "none"

\* The handler the /review conversation in the state given has for a
\* message: the entry point (allow_reentry), else a handler of the state,
\* else a fallback, else none, and none at all when it is in no state.
review_conversation_handler(state, text) ==
    IF text = ReviewText THEN "review_command"
    ELSE IF state = "END" THEN "none"
    ELSE IF ~ filters_COMMAND(text)
    THEN CASE state = "ROUND_NUMBER_STATE" -> "handle_round_number"
           [] state = "DAY_NUMBER_STATE" -> "handle_day_number"
           [] state = "ARTIST_NAME_STATE" -> "handle_artist_name"
           [] state = "SONG_TITLE_STATE" -> "handle_song_title"
           [] state = "FIX_MARKING_STATE" -> "handle_fix_marking"
           [] state = "REMARK_ARTIST_NAME_STATE" -> "handle_remark_artist_name"
           [] state = "REMARK_SONG_TITLE_STATE" -> "handle_remark_song_title"
    ELSE IF state = "FIX_MARKING_STATE" /\ text = DoneText THEN "done_command"
    ELSE IF text = CancelText THEN "cancel_command"
    ELSE "none"

\* /done, where the conversation has done_command for it.
done_command(u) ==
    /\ review_conversation_handler(rv_state[u], DoneText) = "done_command"
    /\ reaches_review(u)
    /\ user_data' = [user_data EXCEPT ![user_of(u)] =
            [@ EXCEPT !.current_review = None, !.current_guesses = None]]
    /\ reply' = Reply(u, "review_completed", <<>>)
    /\ rv_state' = [rv_state EXCEPT ![u] = "END"]
    /\ UNCHANGED <<db, now, ret, window, nr_state, new_round_vars, save_round_calls>>

\* The fallback of the /review conversation.
review_cancel_command(u) ==
    /\ rv_state[u] # "END" /\ reaches_review(u)
    /\ SetData(user_of(u), "current_review", None)
    /\ reply' = Reply(u, "review_cancelled", <<>>)
    /\ rv_state' = [rv_state EXCEPT ![u] = "END"]
    /\ UNCHANGED <<db, now, ret, window, nr_state, new_round_vars, save_round_calls>>

NumberInputs == { <<"1">>, <<"2">>, <<"3">>, <<"x">> }

AnswerInputs == { <<"a">>, <<" ", "B">>, <<" ">> }

YesNoInputs == { <<"y">>, <<"N">>, <<"x">> }

\* A guess document as create_guess stores it at the instant given.
GuessDocAt(u, guess_text, instant) ==
    [type |-> "guess", guesser_id |-> u,
     guesser_name |-> full_name_from_update(u), guess_text |-> guess_text,
     timestamp |-> instant,
     artist_name_correct |-> None, song_title_correct |-> None]

\* Stores for a review: the round of 1 and 2 March 2024 alone, and with
\* guesses sent on its first game day, one of them at the 06:00 that opens it.
ReviewStores ==
    { << to_dict(SeedRound) >>,
      << to_dict(SeedRound),
         GuessDocAt(1, <<"a">>, combine(Day0, first_clue_time)),
         GuessDocAt(2, <<"A", "b">>, combine(Day0, first_clue_time + 60)) >> }

(***************************************************************************)
(* Specifications.                                                         *)
(***************************************************************************)
Init ==
    /\ db = <<>>
    /\ now = Day0 * SecondsPerDay + first_clue_time - 60
    /\ ret = None
    /\ window = [called |-> FALSE, target_date |-> Day0, current_time |-> None,
                 result |-> <<0, 0>>]
    /\ reply = Reply(0, "none", <<>>)
    /\ nr_state = [c \in Conversations |-> "END"]
    /\ rv_state = [c \in Conversations |-> "END"]
    /\ user_data = [u \in Users |-> EmptyUserData]
    /\ conv_state = [c \in Conversations |-> "END"]
    /\ round_name = None
    /\ round_start_date = None
    /\ round_duration = None
    /\ save_round_calls = [p \in Callers |-> NoCall]
    /\ sent = [c \in Conversations |-> <<>>]

\* The clock moves to a later instant.
Tick == /\ \E t \in Instants : t > now /\ now' = t
        /\ UNCHANGED <<db, ret, window, reply, wizard_vars, save_round_calls>>

\* The round store: save_round calls, each run to completion.
NextStore == \E round \in RoundArgs : save_round(round)

SpecStore == Init /\ [][NextStore]_vars

\* The calendar: get_game_day_timestamps on any date, in its three forms.
NextCalendar ==
    \E d \in Day0 - 1 .. Day0 + MaxDay + 1 :
        \E ct \in {None} \cup { Some(t) : t \in FineTimes } :
            GetGameDayTimestamps(d, ct)

SpecCalendar == Init /\ [][NextCalendar]_vars

\* /guess commands from any user at any instant, handled by
\* guess_conversation.py over the data layer.
NextGuess ==
    \/ Tick
    \/ \E u \in Users, guess \in GuessTexts : guess_command(u, guess)

SpecGuess == Init /\ [][NextGuess]_vars

\* The commands and texts gpr_quiz_bot.py handles itself; /guesses prints the
\* guesses on the console and changes nothing here.
NextBot ==
    \/ Tick
    \/ \E u \in Users, guess \in GuessTexts : bot_guess_command(u, guess)
    \/ \E u \in Users : start(u)
    \/ \E u \in Users : wipe_command(u)
    \/ \E u \in Users : no_command_issued(u) /\ UNCHANGED sent

SpecBot == Init /\ [][NextBot]_vars

\* The /newround wizard of every user, beside a store that may hold a round.
NextNewRound ==
    \/ save_round(SeedRound)
    \/ \E u \in Users : newround_command(u) /\ UNCHANGED sent
    \/ \E u \in Users, text \in NameInputs :
          handle_round_name(u, text) /\ UNCHANGED sent
    \/ \E u \in Users, text \in DateInputs :
          handle_start_date(u, text) /\ UNCHANGED sent
    \/ \E u \in Users, text \in DurationInputs :
          handle_duration(u, text) /\ UNCHANGED sent
    \/ \E u \in Users, text \in ConfirmInputs :
          handle_confirm_create(u, text) /\ UNCHANGED sent
    \/ \E u \in Users : cancel_command(u) /\ UNCHANGED sent

SpecNewRound == Init /\ [][NextNewRound]_vars

\* The /newround wizard of new_round.py for every user.
NextNewRoundGlobals ==
    \/ \E u \in Users : new_round_newround_command(u) /\ UNCHANGED sent
    \/ \E u \in Users, text \in NewRoundTexts :
          new_round_message(u, text) /\ UNCHANGED sent

SpecNewRoundGlobals == Init /\ [][NextNewRoundGlobals]_vars

(***************************************************************************)
(* The handlers of review_conversation.py, each taken by itself.  A        *)
(* handler is a function of the message and of context.user_data, which    *)
(* the ConversationHandler calls in the state its table names.  Here each  *)
(* is called with every session of HandlerSessions for its state, not only *)
(* with those a run of the bot leads to: under main() every conversation   *)
(* starts in no state with user_data empty and /review raises before it    *)
(* returns a state (SpecWizards), so that no run calls any handler but     *)
(* review_command.  What holds of the handlers here holds of every run of  *)
(* the bot; what fails here need not fail in any run.                      *)
(***************************************************************************)
Reviewers == {1}

\* The answers of a reviewer as the wizard keeps them, stripped.
ReviewAnswers == { strip(text) : text \in AnswerInputs } \ {<<>>}

\* The sessions the handlers are called with, by the keys that the
\* assignments on the way to each return of a state fill (lines 79-89,
\* 107-111, 136, 153, 170, 176): 'rounds' a list of Round as
\* handle_round_number indexes it, here the rounds of the store;
\* 'selected_round' and 'round_days' a round of that list and its days;
\* 'current_review' with the day, the artist and the title entered;
\* 'current_guesses' a list of Guess with both marks set as send_review_message
\* and handle_fix_marking read it, here the guesses of the day as
\* marked_guesses_for_day of data.py marks them for the answers (the
\* guesses_for_day that line 173 names is not in data.py).
HandlerSessions ==
    LET rounds == get_rounds
        asked == [EmptyUserData EXCEPT
                     !.current_review = Some(Review(None, None, None)),
                     !.rounds = Some(rounds)]
        chosen(k, review) ==
            [asked EXCEPT !.selected_round = Some(rounds[k]),
                          !.round_days = Some(get_days_for_round(rounds[k])),
                          !.current_review = Some(review)]
    IN  { [state |-> "END", data |-> EmptyUserData],
          [state |-> "ROUND_NUMBER_STATE", data |-> asked] }
        \cup UNION { UNION {
              { [state |-> "ARTIST_NAME_STATE",
                 data |-> chosen(k, Review(None, None, Some(day)))] }
              \cup { [state |-> "FIX_MARKING_STATE",
                      data |->
                        [chosen(k, Review(Some(artist), Some(title), Some(day)))
                            EXCEPT !.current_guesses =
                                Some(marked_guesses_for_day(day, title, artist))]] :
                     artist \in ReviewAnswers, title \in ReviewAnswers } :
              day \in { get_days_for_round(rounds[k])[i] :
                          i \in 1 .. rounds[k].duration_days } } :
            k \in 1 .. Len(rounds) }

InitHandlers ==
    /\ db \in ReviewStores
    /\ now = combine(Day0 + 2, first_clue_time)
    /\ ret = None
    /\ window = [called |-> FALSE, target_date |-> Day0, current_time |-> None,
                 result |-> <<0, 0>>]
    /\ reply = Reply(0, "none", <<>>)
    /\ nr_state = [c \in Conversations |-> "END"]
    /\ \E session \in HandlerSessions :
          /\ rv_state = [c \in Conversations |->
                            IF c \in Reviewers THEN session.state ELSE "END"]
          /\ user_data = [u \in Users |->
                            IF u \in Reviewers THEN session.data ELSE EmptyUserData]
    /\ conv_state = [c \in Conversations |-> "END"]
    /\ round_name = None
    /\ round_start_date = None
    /\ round_duration = None
    /\ save_round_calls = [p \in Callers |-> NoCall]
    /\ sent = [c \in Conversations |-> <<>>]

NextHandlers ==
    \/ \E u \in Reviewers : review_command(u) /\ UNCHANGED sent
    \/ \E u \in Reviewers, text \in NumberInputs :
          handle_round_number(u, text) /\ UNCHANGED sent
    \/ \E u \in Reviewers, text \in NumberInputs :
          handle_day_number(u, text) /\ UNCHANGED sent
    \/ \E u \in Reviewers, text \in AnswerInputs :
          handle_artist_name(u, text) /\ UNCHANGED sent
    \/ \E u \in Reviewers, text \in AnswerInputs :
          handle_song_title(u, text) /\ UNCHANGED sent
    \/ \E u \in Reviewers, text \in NumberInputs :
          handle_fix_marking(u, text) /\ UNCHANGED sent
    \/ \E u \in Reviewers, text \in YesNoInputs :
          handle_remark_artist_name(u, text) /\ UNCHANGED sent
    \/ \E u \in Reviewers, text \in YesNoInputs :
          handle_remark_song_title(u, text) /\ UNCHANGED sent
    \/ \E u \in Reviewers : done_command(u) /\ UNCHANGED sent
    \/ \E u \in Reviewers : review_cancel_command(u) /\ UNCHANGED sent

SpecHandlers == InitHandlers /\ [][NextHandlers]_vars

(***************************************************************************)
(* The bot as main() builds it (gpr_quiz_bot.py), started over a db.json   *)
(* that holds a round: every conversation is in no state and user_data is  *)
(* empty.  A message goes to the first handler that takes it: the          *)
(* conversation of new_round.py, then that of the review, then             *)
(* no_command_issued; a command that none of them takes is dropped.        *)
(***************************************************************************)
\* What a reviewer sends to go through the review wizard: /review, the
\* first round, its first day, the artist and the title.
ReviewFlow == <<ReviewText, <<"1">>, <<"1">>, <<"a">>, <<"a">>>>

\* ... then /done.
DoneScript == Append(ReviewFlow, DoneText)

\* ... or the first guess, n for its artist mark and y for its title mark.
LoopScript == ReviewFlow \o << <<"1">>, <<"n">>, <<"y">> >>

\* /review and the first round, then an answer to the question for the day.
DayScripts == { <<ReviewText, <<"1">>, text>> : text \in NumberInputs }

\* /review and the first round, then /cancel.
CancelScript == <<ReviewText, <<"1">>, CancelText>>

\* /review and the first round, then /review again.
ReviewReentryScript == <<ReviewText, <<"1">>, ReviewText>>

\* /newround and a name, then /newround again.
NewroundReentryScript == <<NewroundText, <<"A">>, NewroundText>>

Scripts ==
    {DoneScript, LoopScript, CancelScript, ReviewReentryScript,
     NewroundReentryScript} \cup DayScripts

\* s begins t.
Begins(s, t) == Len(s) <= Len(t) /\ s = SubSeq(t, 1, Len(s))

\* The value of sent after messages that begin none of the Scripts.
OffScript == << <<>> >>

\* The messages of a conversation with one more.
Sent(c, text) ==
    LET messages == Append(sent[c], text)
    IN  sent' = [sent EXCEPT ![c] =
                    IF sent[c] # OffScript /\ \E script \in Scripts :
                                                Begins(messages, script)
                    THEN messages ELSE OffScript]

\* The /review conversation takes a message with the handler its table has
\* for it in the state it is in.
review_conversation(c, text) ==
    LET handler == review_conversation_handler(rv_state[c], text)
    IN  /\ reaches_review(c) /\ text # NewroundText
        /\ \/ handler = "review_command" /\ review_command(c)
           \/ handler = "handle_round_number" /\ handle_round_number(c, text)
           \/ handler = "handle_day_number" /\ handle_day_number(c, text)
           \/ handler = "handle_artist_name" /\ handle_artist_name(c, text)
           \/ handler = "handle_song_title" /\ handle_song_title(c, text)
           \/ handler = "handle_fix_marking" /\ handle_fix_marking(c, text)
           \/ handler = "handle_remark_artist_name"
                /\ handle_remark_artist_name(c, text)
           \/ handler = "handle_remark_song_title"
                /\ handle_remark_song_title(c, text)
           \/ handler = "done_command" /\ done_command(c)
           \/ handler = "cancel_command" /\ review_cancel_command(c)

\* A command that is none of main()'s own and that neither conversation
\* takes: no handler runs and nothing is sent.
no_handler(c, text) ==
    /\ filters_COMMAND(text) /\ text # NewroundText
    /\ reaches_review(c)
    /\ review_conversation_handler(rv_state[c], text) = "none"
    /\ UNCHANGED <<db, now, ret, window, reply, nr_state, rv_state, user_data,
                   new_round_vars, save_round_calls>>

\* What a user sends to the bot.
WizardTexts ==
    { <<"A">>, <<"0", "1", "/", "0", "3", "/", "2", "4">>, <<"1">>, <<"2">>,
      <<"3">>, <<"x">>, <<"a">>, <<"y">>, <<"n">>, CancelText, ReviewText,
      DoneText }

InitMain ==
    /\ db \in ReviewStores
    /\ now = combine(Day0 + 2, first_clue_time)
    /\ ret = None
    /\ window = [called |-> FALSE, target_date |-> Day0, current_time |-> None,
                 result |-> <<0, 0>>]
    /\ reply = Reply(0, "none", <<>>)
    /\ nr_state = [c \in Conversations |-> "END"]
    /\ rv_state = [c \in Conversations |-> "END"]
    /\ user_data = [u \in Users |-> EmptyUserData]
    /\ conv_state = [c \in Conversations |-> "END"]
    /\ round_name = None
    /\ round_start_date = None
    /\ round_duration = None
    /\ save_round_calls = [p \in Callers |-> NoCall]
    /\ sent = [c \in Conversations |-> <<>>]

\* The messages of one user in one chat.
NextWizards ==
    \/ \E c \in Reviewers :
          new_round_newround_command(c) /\ Sent(c, NewroundText)
    \/ \E c \in Reviewers, text \in WizardTexts :
          new_round_message(c, text) /\ Sent(c, text)
    \/ \E c \in Reviewers, text \in WizardTexts :
          review_conversation(c, text) /\ Sent(c, text)
    \/ \E c \in Reviewers, text \in WizardTexts :
          ~ filters_COMMAND(text) /\ no_command_issued(c) /\ Sent(c, text)
    \/ \E c \in Reviewers, text \in WizardTexts :
          no_handler(c, text) /\ Sent(c, text)

SpecWizards == InitMain /\ [][NextWizards]_vars

\* The messages of one user in two chats, to the /review conversation.
TwoChats == Reviewers \cup {SecondChat}

NextTwoChats ==
    \/ \E c \in TwoChats, text \in WizardTexts :
          review_conversation(c, text) /\ Sent(c, text)
    \/ \E c \in TwoChats, text \in WizardTexts :
          ~ filters_COMMAND(text) /\ no_command_issued(c) /\ Sent(c, text)
    \/ \E c \in TwoChats, text \in WizardTexts :
          no_handler(c, text) /\ Sent(c, text)

SpecTwoChats == InitMain /\ [][NextTwoChats]_vars

\* Two save_round calls over an empty store, their steps in any order.
NextRace ==
    \/ \E p \in Callers, round \in RoundArgs : save_round_get_rounds(p, round)
    \/ \E p \in Callers : save_round_insert(p)

SpecRace == Init /\ [][NextRace]_vars

\* The methods of Round on any rounds of a day or more.  They read nothing
\* of the state, so a behaviour makes one call.
NextRound ==
    /\ ret = None
    /\ \/ \E self \in RoundArgs, other \in RoundArgs : OverlapsWith(self, other)
       \/ \E round \in RoundArgs, time \in FineTimes : EndDate(round, time)

SpecRound == Init /\ [][NextRound]_vars

\* format_date_with_suffix on every day from 1 January to 1 May 2024, one
\* call in a behaviour.
FormatDates == { DateTime(d, 0) : d \in Day0 - 60 .. Day0 + 61 }

NextFormat ==
    /\ ret = None
    /\ \E date_obj \in FormatDates : FormatDateWithSuffix(date_obj)

SpecFormat == Init /\ [][NextFormat]_vars

\* Stores of guesses for the marking: texts in either case, on the first
\* game day and on the second.
MarkTexts == { <<"a">>, <<"A", "b">>, <<"b", " ", "A">>, <<"B">> }

MarkStores ==
    { << GuessDocAt(1, t1, combine(Day0, first_clue_time + 60)),
         GuessDocAt(2, t2, combine(Day0 + 1, first_clue_time + 60)) >> :
      t1 \in MarkTexts, t2 \in MarkTexts }

\* The answers a reviewer may give: a title or an artist, in either case.
MarkAnswers == { <<"a">>, <<"A">>, <<"a", "b">>, <<"B", " ", "a">>, <<>> }

InitMarking ==
    /\ db \in MarkStores
    /\ now = combine(Day0 + 2, first_clue_time)
    /\ ret = None
    /\ window = [called |-> FALSE, target_date |-> Day0, current_time |-> None,
                 result |-> <<0, 0>>]
    /\ reply = Reply(0, "none", <<>>)
    /\ nr_state = [c \in Conversations |-> "END"]
    /\ rv_state = [c \in Conversations |-> "END"]
    /\ user_data = [u \in Users |-> EmptyUserData]
    /\ conv_state = [c \in Conversations |-> "END"]
    /\ round_name = None
    /\ round_start_date = None
    /\ round_duration = None
    /\ save_round_calls = [p \in Callers |-> NoCall]
    /\ sent = [c \in Conversations |-> <<>>]

\* marked_guesses_for_day on any day of the store, for any answer.
NextMarking ==
    \E d \in Day0 .. Day0 + MaxDay :
        \E song_title \in MarkAnswers, artist_name \in MarkAnswers :
            MarkedGuessesForDay(d, song_title, artist_name)

SpecMarking == InitMarking /\ [][NextMarking]_vars

(***************************************************************************)
(* Properties.                                                             *)
(***************************************************************************)
\* The calendar days a round covers: start_date .. start_date + duration - 1.
DaysOf(r) == r.start_date .. (r.start_date + r.duration_days - 1)

SharesDay(a, b) == DaysOf(a) \cap DaysOf(b) # {}

\* The game day an instant falls in: the date whose 06:00 starts the
\* 24 hours that contain the instant.
GameDayOf(t) == (t - 6 * 3600) \div (24 * 3600)

IsGuessDoc(d) == d.type = "guess"
GuesserOf(d) == IF HasField(d, "guesser_id") THEN d.guesser_id ELSE d.user_id
StampOf(d) == IF HasField(d, "timestamp") THEN d.timestamp ELSE d.date

\* C1: after any sequence of completed save_round calls, no two stored
\* rounds have a calendar day in common.
C1_NoOverlappingRounds ==
    \A i, j \in 1 .. Len(get_rounds) :
        i < j => ~ SharesDay(get_rounds[i], get_rounds[j])

\* Two stored rounds on adjacent days, and a save_round call was rejected.
C1_Witness ==
    /\ ret = Some(FALSE)
    /\ \E i, j \in 1 .. Len(get_rounds) :
          end_date(get_rounds[i]) + 1 = get_rounds[j].start_date

\* C2: save_round(r) returns False exactly when r shares a day with a stored
\* round, and then the store is unchanged; otherwise it returns True and the
\* stored rounds are the previous ones followed by r, nothing else changing.
C2_SaveRoundOutcome ==
    [][ \A round \in RoundArgs :
          save_round(round) =>
            IF \E i \in 1 .. Len(get_rounds) : SharesDay(round, get_rounds[i])
            THEN ret' = Some(FALSE) /\ db' = db
            ELSE /\ ret' = Some(TRUE)
                 /\ get_rounds' = Append(get_rounds, round)
                 /\ Len(db') = Len(db) + 1
                 /\ SubSeq(db', 1, Len(db)) = db ]_vars

\* A call was rejected with two rounds in the store.
C2_Witness == ret = Some(FALSE) /\ Len(get_rounds) >= 2

\* C3: the store never holds two guesses of one user in one game day.
C3_OneGuessPerGameDay ==
    \A i, j \in 1 .. Len(db) :
        (/\ i < j
         /\ IsGuessDoc(db[i]) /\ IsGuessDoc(db[j])
         /\ GuesserOf(db[i]) = GuesserOf(db[j]))
            => GameDayOf(StampOf(db[i])) # GameDayOf(StampOf(db[j]))

\* The caller has stored guesses, all of them of earlier game days.
OnlyEarlierGuesses(u) ==
    /\ \E i \in 1 .. Len(db) : IsGuessDoc(db[i]) /\ GuesserOf(db[i]) = u
    /\ \A i \in 1 .. Len(db) :
          (IsGuessDoc(db[i]) /\ GuesserOf(db[i]) = u)
              => GameDayOf(StampOf(db[i])) < GameDayOf(now)

\* C4: a /guess of a caller whose stored guesses are all of earlier game
\* days records the new guess.
C4_GuessCheckScopedToGameDay ==
    [][ \A u \in Users, guess \in GuessTexts :
          ((guess_command(u, guess) \/ bot_guess_command(u, guess))
              /\ OnlyEarlierGuesses(u))
            => /\ Len(db') = Len(db) + 1
               /\ reply'.kind = "recorded" ]_vars

\* C8: with the cutoff at 06:00, the window of date D and time of day t
\* starts at 06:00 of D-1 when t < 06:00 and at 06:00 of D otherwise, ends
\* one day after its start, and contains the instant D t.
C8_WindowFor ==
    window.called =>
        LET D  == window.target_date
            ct == window.current_time
            w  == window.result
        IN  /\ w[1] = IF ct # None /\ ct[1] < 6 * 3600
                      THEN (D - 1) * 86400 + 6 * 3600
                      ELSE D * 86400 + 6 * 3600
            /\ w[2] = w[1] + 86400
            /\ ct # None => (w[1] <= D * 86400 + ct[1] /\ D * 86400 + ct[1] < w[2])

\* The window was computed for 05:59 and came out as the previous day's.
C8_Witness ==
    /\ window.called
    /\ window.current_time = Some(5 * 3600 + 59 * 60)
    /\ window.result[1] = (window.target_date - 1) * 86400 + 6 * 3600

\* C9: every stored guess is among the guesses of exactly one date.
C9_GuessInExactlyOneDay ==
    \A i \in 1 .. Len(db) :
        (IsGuessDoc(db[i]) /\ HasField(db[i], "timestamp")) =>
            Cardinality({ D \in Day0 - 2 .. Day0 + MaxDay + 2 :
                            \E k \in 1 .. Len(marked_guesses_for_day(D, <<>>, <<>>)) :
                                guesses_in_window(D)[k] = db[i] }) = 1

\* The guesses create_guess stored for guesser_id, oldest first.
GuessesOf(guesser_id) ==
    LET Mine(d) == IsGuessDoc(d) /\ HasField(d, "guesser_id")
                     /\ d.guesser_id = guesser_id
    IN  SelectSeq(db, Mine)

\* C10: get_todays_guess(u) is None while u has no stored guess, is the
\* text of u's latest create_guess within that guess's game day, and is
\* None once the clock is in a later game day.
C10_TodaysGuess ==
    \A u \in Users :
        LET mine == GuessesOf(u)
        IN  IF mine = <<>> THEN get_todays_guess(u) = None
            ELSE IF GameDayOf(mine[Len(mine)].timestamp) = GameDayOf(now)
                 THEN get_todays_guess(u) = Some(mine[Len(mine)].guess_text)
                 ELSE get_todays_guess(u) = None

\* The round the /newround wizard of u holds, its start as a calendar date.
SessionRound(u) ==
    Round(user_data[u].new_round[1].name,
          user_data[u].new_round[1].start_date.date,
          user_data[u].new_round[1].duration_days)

OverlapsStored(r) == \E i \in 1 .. Len(get_rounds) : SharesDay(r, get_rounds[i])

\* C5: confirming with "y" a round that overlaps no stored round ends the
\* wizard and leaves the store with exactly that round added.
C5_ConfirmPersistsRound ==
    [][ \A u \in Users :
          (handle_confirm_create(u, <<"y">>) /\ ~ OverlapsStored(SessionRound(u)))
            => /\ get_rounds' = Append(get_rounds, SessionRound(u))
               /\ nr_state'[u] = "END" ]_vars

\* C6: confirming with "y" a round that overlaps a stored round persists
\* nothing, reports the overlap, discards the partial round and ends.
C6_OverlapReported ==
    [][ \A u \in Users :
          (handle_confirm_create(u, <<"y">>) /\ OverlapsStored(SessionRound(u)))
            => /\ db' = db
               /\ reply'.kind = "overlap"
               /\ user_data'[u].new_round = None
               /\ nr_state'[u] = "END" ]_vars

\* The stored document of a cached guess.
IsDocOf(d, g) ==
    /\ IsGuessDoc(d) /\ HasField(d, "guesser_id")
    /\ d.guesser_id = g.guesser_id
    /\ d.guess_text = g.guess_text
    /\ d.timestamp = g.timestamp

\* The step in which a conversation has sent the last message of a script.
Completes(c, script) ==
    /\ sent[c] = SubSeq(script, 1, Len(script) - 1)
    /\ sent'[c] = script

\* What ReviewFlow names: the first round of the store, its first day, and
\* the review and the marked guesses of that day for the answers given.
FlowRound == get_rounds[1]

FlowDay == get_days_for_round(FlowRound)[1]

FlowReview == Review(Some(<<"a">>), Some(<<"a">>), Some(FlowDay))

FlowGuesses == marked_guesses_for_day(FlowDay, <<"a">>, <<"a">>)

\* C7: when a reviewer who has named the round, the day, the artist and the
\* title, and so is in FixMarking, sends /done, every stored guess of the
\* reviewed day has the marks of the cached list (those of the automatic
\* marking, nothing having been corrected), the session is cleared and the
\* wizard has ended.
C7_DonePersistsMarking ==
    [][ \A c \in Conversations :
          Completes(c, DoneScript) =>
            /\ \A k \in 1 .. Len(FlowGuesses) :
                 \A i \in 1 .. Len(db') :
                    IsDocOf(db'[i], FlowGuesses[k]) =>
                      /\ db'[i].artist_name_correct =
                            Some(FlowGuesses[k].artist_name_correct)
                      /\ db'[i].song_title_correct =
                            Some(FlowGuesses[k].song_title_correct)
            /\ user_data'[user_of(c)].current_review \in Nothing
            /\ user_data'[user_of(c)].current_guesses \in Nothing
            /\ rv_state'[c] = "END" ]_vars

\* Case-insensitive containment stated on positions: some stretch of the text
\* spells the answer when letters are compared without regard to case.
SameLetter(c, d) ==
    \/ c = d
    \/ {c, d} \in { {"a", "A"}, {"b", "B"}, {"n", "N"}, {"y", "Y"} }

AppearsIn(answer, text) ==
    \E at \in 1 .. Len(text) + 1 :
        /\ at + Len(answer) - 1 <= Len(text)
        /\ \A j \in 1 .. Len(answer) : SameLetter(text[at + j - 1], answer[j])

\* C11: every guess marked_guesses_for_day returns has artist_name_correct
\* true exactly when the artist appears in its guess_text without regard to
\* case, and song_title_correct true exactly when the title does; neither mark
\* depends on the other answer.
C11_MarksAreSubstringTests ==
    ret # None =>
        \A i \in 1 .. Len(ret[1].result) :
            LET g == ret[1].result[i]
            IN  /\ g.artist_name_correct = AppearsIn(ret[1].artist_name, g.guess_text)
                /\ g.song_title_correct = AppearsIn(ret[1].song_title, g.guess_text)

\* A guess typed in capitals is marked right for the artist and wrong for the
\* title.
C11_Witness ==
    /\ ret # None
    /\ \E i \in 1 .. Len(ret[1].result) :
          LET g == ret[1].result[i]
          IN  /\ g.guess_text = <<"A", "b">>
              /\ ret[1].artist_name = <<"a", "b">>
              /\ g.artist_name_correct
              /\ ~ g.song_title_correct

\* C12: in REMARK_ARTIST_NAME_STATE an answer of n, in either case, sets
\* artist_name_correct of the selected guess of the cached list to false and
\* an answer of y leaves the list as it is; either way nothing else of the
\* session, no other cached guess, no other field of the selected guess and
\* nothing in the store changes, and the wizard is in REMARK_SONG_TITLE_STATE.
C12_RemarkArtistFrame ==
    [][ \A u \in Users : \A text \in {<<"y">>, <<"Y">>, <<"n">>, <<"N">>} :
          handle_remark_artist_name(u, text) =>
            LET k == user_data[u].selected_guess_num[1]
                old == user_data[u].current_guesses[1]
                new == user_data'[u].current_guesses[1]
            IN  /\ db' = db
                /\ rv_state'[u] = "REMARK_SONG_TITLE_STATE"
                /\ \A v \in Users \ {u} : user_data'[v] = user_data[v]
                /\ \A key \in DOMAIN user_data[u] \ {"current_guesses"} :
                      user_data'[u][key] = user_data[u][key]
                /\ user_data'[u].current_guesses \notin Nothing
                /\ Len(new) = Len(old)
                /\ \A i \in 1 .. Len(old) : i # k => new[i] = old[i]
                /\ \A f \in DOMAIN old[k] \ {"artist_name_correct"} :
                      new[k][f] = old[k][f]
                /\ new[k].artist_name_correct =
                      IF text \in {<<"n">>, <<"N">>} THEN FALSE
                      ELSE old[k].artist_name_correct ]_vars

\* A guess that the marking found right for the artist and for the title has
\* been answered n: its artist mark is false, its title mark still true.
C12_Witness ==
    \E u \in Users :
        /\ rv_state[u] = "REMARK_SONG_TITLE_STATE"
        /\ LET g == user_data[u].current_guesses[1][user_data[u].selected_guess_num[1]]
               r == user_data[u].current_review[1]
           IN  /\ r.artist_name # None /\ r.song_title # None
               /\ AppearsIn(r.artist_name[1], g.guess_text)
               /\ AppearsIn(r.song_title[1], g.guess_text)
               /\ ~ g.artist_name_correct
               /\ g.song_title_correct

\* C13: overlaps_with gives the same answer in either order, a round overlaps
\* itself, and two rounds overlap exactly when some calendar day lies in both
\* of their inclusive intervals, a single shared day being enough.
C13_OverlapsWithSymmetric ==
    (ret # None /\ ret[1].call = "overlaps_with") =>
        /\ ret[1].result = ret[1].converse
        /\ ret[1].itself
        /\ ret[1].result = (DaysOf(ret[1].self) \cap DaysOf(ret[1].other) # {})

\* Two different rounds that share exactly one day, the last of one and the
\* first of the other, are found to overlap.
C13_Witness ==
    /\ ret # None /\ ret[1].call = "overlaps_with"
    /\ ret[1].self.start_date < ret[1].other.start_date
    /\ Cardinality(DaysOf(ret[1].self) \cap DaysOf(ret[1].other)) = 1
    /\ ret[1].result

\* C14: end_date is the last of duration_days consecutive days that begin on
\* start_date, so it is start_date itself for one day; get_end_date for the
\* same start and duration falls on the same day, at the start's time of day.
C14_EndDate ==
    (ret # None /\ ret[1].call = "end_date") =>
        LET r == ret[1].round
        IN  /\ ret[1].end_date - r.start_date = r.duration_days - 1
            /\ r.duration_days = 1 => ret[1].end_date = r.start_date
            /\ ret[1].prompt_end = DateTime(ret[1].end_date, ret[1].time)

\* A round of more than one day has been measured.
C14_Witness ==
    /\ ret # None /\ ret[1].call = "end_date"
    /\ ret[1].round.duration_days > 1
    /\ ret[1].end_date > ret[1].round.start_date
    /\ ret[1].prompt_end.date = ret[1].end_date

\* C15: /cancel sent in any of the four states of the round creation wizard
\* ends the wizard, discards the round built so far and stores nothing; it
\* is not taken as the text the state waits for.
C15_CancelEndsNewRound ==
    [][ \A u \in Users :
          (conv_state[u] # "END" /\ new_round_message(u, CancelText)) =>
            /\ conv_state'[u] = "END"
            /\ reply'.kind = "cancelled"
            /\ round_name' = None
            /\ round_start_date' = None
            /\ round_duration' = None
            /\ db' = db ]_vars

\* The inputs a state of the round creation wizard rejects.
InvalidInput(state, text) ==
    \/ state = "ROUND_NAME_STATE" /\ text = <<" ">>
    \/ state = "START_DATE_STATE" /\ text \in {<<"A">>, <<" ">>, <<"2">>}
    \/ state = "DURATION_STATE" /\ text \in {<<"A">>, <<" ">>, <<"0">>}

\* C18: an invalid input leaves the wizard in the state it was in, leaves
\* every field of the round being built as it was and stores nothing.
C18_InvalidInputChangesNothing ==
    [][ \A u \in Users : \A text \in NewRoundTexts :
          (new_round_message(u, text) /\ InvalidInput(conv_state[u], text)) =>
            /\ conv_state' = conv_state
            /\ round_name' = round_name
            /\ round_start_date' = round_start_date
            /\ round_duration' = round_duration
            /\ db' = db ]_vars

\* C19: in CONFIRM_CREATE_STATE a text that is y in either case is answered
\* as a commit, any other text as a cancellation that discards the round and
\* stores nothing; after either the wizard has ended.
C19_ConfirmEndsWizard ==
    [][ \A u \in Users : \A text \in NewRoundTexts \ {CancelText} :
          new_round_handle_confirm_create(u, text) =>
            /\ conv_state'[u] = "END"
            /\ IF lower(text) = <<"y">>
               THEN reply'.kind \in {"created", "overlap"}
               ELSE /\ reply'.kind = "cancelled"
                    /\ round_name' = None
                    /\ round_start_date' = None
                    /\ round_duration' = None
                    /\ db' = db ]_vars

\* C20: a message handled for one user changes neither the wizard state of
\* another user nor, while that other user's wizard is running, the round it
\* is building.
C20_UsersIndependent ==
    [][ \A a \in Users : \A b \in Users \ {a} :
          (\/ new_round_newround_command(b)
           \/ \E text \in NewRoundTexts : new_round_message(b, text)) =>
            /\ conv_state'[a] = conv_state[a]
            /\ conv_state[a] # "END" =>
                  /\ round_name' = round_name
                  /\ round_start_date' = round_start_date
                  /\ round_duration' = round_duration ]_vars

\* The keys of user_data that the review wizard writes.
ReviewKeys ==
    {"current_review", "rounds", "selected_round", "round_days",
     "current_guesses", "selected_guess_num"}

\* C16: when a reviewer who has sent /review and chosen a round, and so is
\* in SelectDay, sends /cancel, the wizard has ended with nothing of its
\* session left (the review, the rounds, the days, the cached guesses, the
\* selected guess number) and the store as it was.
C16_ReviewCancelDiscardsSession ==
    [][ \A c \in Conversations :
          Completes(c, CancelScript) =>
            /\ rv_state'[c] = "END"
            /\ \A key \in ReviewKeys : user_data'[user_of(c)][key] \in Nothing
            /\ db' = db ]_vars

\* C17: after a /cancel of a user is handled, by whichever conversation of
\* main() takes it, that user has no wizard in a state.
C17_CancelEndsEveryWizard ==
    [][ \A u \in Users :
          (\/ new_round_message(u, CancelText)
           \/ new_round_cancel_command(u)
           \/ review_cancel_command(u)) =>
            /\ conv_state'[u] = "END"
            /\ rv_state'[u] = "END" ]_vars

\* C21: /newround sent again after /newround and a name, and /review sent
\* again after /review and a round number, put the wizard in its first state
\* with the session a start from no wizard gives: no name, date or duration
\* of a round, or an empty review, the stored rounds and nothing else.
C21_ReentryStartsAfresh ==
    [][ \A c \in Conversations :
          /\ Completes(c, NewroundReentryScript) =>
                /\ conv_state'[c] = "ROUND_NAME_STATE"
                /\ round_name' = None
                /\ round_start_date' = None
                /\ round_duration' = None
          /\ Completes(c, ReviewReentryScript) =>
                /\ rv_state'[c] = "ROUND_NUMBER_STATE"
                /\ user_data'[user_of(c)].current_review =
                      Some(Review(None, None, None))
                /\ user_data'[user_of(c)].rounds = Some(get_rounds)
                /\ \A key \in ReviewKeys \ {"current_review", "rounds"} :
                      user_data'[user_of(c)][key] \in Nothing ]_vars

\* C22: no step of the review wizard other than /done (the marking of the
\* day's guesses, an answer in a remark state, a /cancel after corrections)
\* changes artist_name_correct or song_title_correct of a stored guess or
\* the number of stored documents.
C22_MarksWrittenOnlyByDone ==
    [][ (\A u \in Users : ~ done_command(u)) =>
          /\ Len(db') = Len(db)
          /\ \A i \in 1 .. Len(db) :
                IsGuessDoc(db[i]) =>
                  /\ IsGuessDoc(db'[i])
                  /\ db'[i].artist_name_correct = db[i].artist_name_correct
                  /\ db'[i].song_title_correct = db[i].song_title_correct ]_vars

\* A title mark that the marking had found right has been answered n, the
\* wizard is back in FIX_MARKING_STATE, and every stored guess is unmarked.
C22_Witness ==
    /\ \E u \in Users :
          /\ rv_state[u] = "FIX_MARKING_STATE"
          /\ user_data[u].current_review[1].song_title # None
          /\ \E k \in 1 .. Len(user_data[u].current_guesses[1]) :
                LET g == user_data[u].current_guesses[1][k]
                IN  /\ ~ g.song_title_correct
                    /\ AppearsIn(user_data[u].current_review[1].song_title[1],
                                 g.guess_text)
    /\ \E i \in 1 .. Len(db) : IsGuessDoc(db[i])
    /\ \A i \in 1 .. Len(db) :
          IsGuessDoc(db[i]) =>
            /\ db[i].artist_name_correct = None
            /\ db[i].song_title_correct = None

\* C23: a /done that reaches the review conversation of a user in any state
\* but FIX_MARKING_STATE, or in no state, finds no handler, so that nothing
\* runs for it; and every step that done_command takes starts in
\* FIX_MARKING_STATE.
C23_DoneOnlyInFixMarking ==
    [][ \A u \in Users :
          /\ rv_state[u] # "FIX_MARKING_STATE" =>
                review_conversation_handler(rv_state[u], DoneText) = "none"
          /\ done_command(u) => rv_state[u] = "FIX_MARKING_STATE" ]_vars

\* The wizard waits for the answer about a song title, with a guess
\* selected, and has no handler for /done.
C23_Witness ==
    \E u \in Users :
        /\ rv_state[u] = "REMARK_SONG_TITLE_STATE"
        /\ user_data[u].selected_guess_num \notin Nothing
        /\ review_conversation_handler(rv_state[u], DoneText) = "none"

\* C24: the suffix of a day of the month is "st" for 1, 21 and 31, "nd" for
\* 2 and 22, "rd" for 3 and 23, and "th" for every other day, 11, 12 and 13
\* among them.
C24_OrdinalSuffix ==
    (ret # None /\ ret[1].call = "format_date_with_suffix") =>
        LET day == ret[1].result[2]
            suffix == ret[1].result[3]
        IN  /\ day \in 1 .. 31
            /\ day = civil_from_days(ret[1].date_obj.date)[3]
            /\ suffix = IF day \in {1, 21, 31} THEN "st"
                        ELSE IF day \in {2, 22} THEN "nd"
                        ELSE IF day \in {3, 23} THEN "rd"
                        ELSE "th"

\* The twelfth of a month has been formatted, with "th".
C24_Witness ==
    /\ ret # None /\ ret[1].call = "format_date_with_suffix"
    /\ ret[1].result[2] = 12
    /\ ret[1].result[3] = "th"

\* C25: two stored rounds share a day only when both calls read the rounds
\* before either had inserted: each passed its check on the empty store and
\* then inserted.  A call that reads after the other's insert refuses.
C25_OverlapOnlyByInterleaving ==
    (\E i \in 1 .. Len(get_rounds) : \E j \in 1 .. Len(get_rounds) :
        i < j /\ SharesDay(get_rounds[i], get_rounds[j]))
    => \A p \in Callers :
          /\ save_round_calls[p].pc = "returned"
          /\ save_round_calls[p].result = Some(TRUE)
          /\ save_round_calls[p].existing_rounds = <<>>

\* The store holds two rounds that share a day, and both calls returned True.
C25_Witness ==
    /\ Len(get_rounds) = 2
    /\ SharesDay(get_rounds[1], get_rounds[2])
    /\ \A p \in Callers : save_round_calls[p].result = Some(TRUE)

\* C26: once a reviewer has sent /review and chosen the first round, the
\* wizard is in SelectDay and the days it holds for the round are its
\* duration_days days in order, the k-th being start_date + (k - 1) and the
\* last its end_date; the answer that follows is accepted exactly when it is
\* an integer from 1 to duration_days, and then the day stored in the review
\* is that day of the round.
C26_DaysOfChosenRound ==
    [][ \A c \in Conversations :
          LET r == FlowRound
              data == user_data'[user_of(c)]
          IN  /\ Completes(c, <<ReviewText, <<"1">>>>) =>
                    /\ rv_state'[c] = "DAY_NUMBER_STATE"
                    /\ data.selected_round = Some(r)
                    /\ data.round_days \notin Nothing
                    /\ LET days == data.round_days[1]
                       IN  /\ Len(days) = r.duration_days
                           /\ \A k \in 1 .. Len(days) :
                                 days[k] - r.start_date = k - 1
                           /\ days[Len(days)] = end_date(r)
              /\ \A text \in NumberInputs :
                    Completes(c, <<ReviewText, <<"1">>, text>>) =>
                      IF \E k \in 1 .. r.duration_days : int(text) = Some(k)
                      THEN /\ rv_state'[c] = "ARTIST_NAME_STATE"
                           /\ data.current_review \notin Nothing
                           /\ data.current_review[1].day_to_review
                                 = Some(r.start_date + int(text)[1] - 1)
                           /\ r.start_date + int(text)[1] - 1 \in DaysOf(r)
                      ELSE /\ rv_state'[c] = "DAY_NUMBER_STATE"
                           /\ data.current_review \notin Nothing
                           /\ data.current_review[1].day_to_review = None ]_vars

\* The cached guess list and the review of a user.
CachedGuesses(u) == user_data[u].current_guesses[1]

MarkingStates == {"FIX_MARKING_STATE", "REMARK_ARTIST_NAME_STATE", "REMARK_SONG_TITLE_STATE"}

\* C28: while a user stays in the marking states no step turns a cached mark
\* from false to true, and in those states a cached mark that is true has the
\* answer the review holds appearing in the guess text, as the automatic
\* marking requires.
C28_MarksOnlyTurnFalse ==
    [][ \A u \in Users :
          /\ (/\ rv_state[u] \in MarkingStates
              /\ user_data[u].current_review[1].artist_name # None
              /\ user_data[u].current_review[1].song_title # None) =>
                LET current_review == user_data[u].current_review[1]
                IN  \A k \in 1 .. Len(CachedGuesses(u)) :
                      /\ CachedGuesses(u)[k].artist_name_correct =>
                            AppearsIn(current_review.artist_name[1],
                                      CachedGuesses(u)[k].guess_text)
                      /\ CachedGuesses(u)[k].song_title_correct =>
                            AppearsIn(current_review.song_title[1],
                                      CachedGuesses(u)[k].guess_text)
          /\ (rv_state[u] \in MarkingStates /\ rv_state'[u] \in MarkingStates) =>
                LET old == CachedGuesses(u)
                    new == user_data'[u].current_guesses[1]
                IN  /\ Len(new) = Len(old)
                    /\ \A k \in 1 .. Len(old) :
                          /\ new[k].artist_name_correct => old[k].artist_name_correct
                          /\ new[k].song_title_correct => old[k].song_title_correct ]_vars

\* The artist mark of a guess in which the artist does not appear has just
\* been answered, and the mark is false as the automatic marking left it.
C28_Witness ==
    \E u \in Users :
        /\ rv_state[u] = "REMARK_SONG_TITLE_STATE"
        /\ LET k == user_data[u].selected_guess_num[1]
           IN  /\ user_data[u].current_review[1].artist_name # None
               /\ reply.kind = "ask_title_correct"
               /\ ~ CachedGuesses(u)[k].artist_name_correct
               /\ ~ AppearsIn(user_data[u].current_review[1].artist_name[1],
                              CachedGuesses(u)[k].guess_text)

\* The states of the review wizard from the one given onwards.
StatesFrom(state) ==
    CASE state = "ARTIST_NAME_STATE" ->
            {"ARTIST_NAME_STATE", "SONG_TITLE_STATE"} \cup MarkingStates
      [] state = "SONG_TITLE_STATE" -> {"SONG_TITLE_STATE"} \cup MarkingStates
      [] state = "FIX_MARKING_STATE" -> MarkingStates
      [] state = "REMARK_ARTIST_NAME_STATE" ->
            {"REMARK_ARTIST_NAME_STATE", "REMARK_SONG_TITLE_STATE"}

\* The session given holds what the handler of the state given reads.
SessionHoldsWhatIsRead(state, data) ==
    LET current_review == data.current_review
    IN  /\ state = "DAY_NUMBER_STATE" =>
              data.round_days \notin Nothing /\ data.round_days[1] # <<>>
        /\ state \in StatesFrom("ARTIST_NAME_STATE") =>
              current_review \notin Nothing /\ current_review[1].day_to_review # None
        /\ state \in StatesFrom("SONG_TITLE_STATE") =>
              /\ current_review \notin Nothing
              /\ current_review[1].artist_name \notin {None, Some(<<>>)}
        /\ state \in StatesFrom("FIX_MARKING_STATE") =>
              /\ current_review \notin Nothing
              /\ current_review[1].song_title \notin {None, Some(<<>>)}
              /\ data.current_guesses \notin Nothing
        /\ state \in StatesFrom("REMARK_ARTIST_NAME_STATE") =>
              /\ data.selected_guess_num \notin Nothing /\ data.current_guesses \notin Nothing
              /\ data.selected_guess_num[1] \in 1 .. Len(data.current_guesses[1])

\* The states the wizard goes through as the messages of LoopScript arrive.
FlowStates ==
    << "ROUND_NUMBER_STATE", "DAY_NUMBER_STATE", "ARTIST_NAME_STATE",
       "SONG_TITLE_STATE", "FIX_MARKING_STATE", "REMARK_ARTIST_NAME_STATE",
       "REMARK_SONG_TITLE_STATE", "FIX_MARKING_STATE" >>

UpdateGuessesMarking(target_date, song_title, artist_name) ==
    LET guesses == marked_guesses_for_day(target_date, song_title, artist_name)
    IN  /\ ret = None
        /\ db' = update_guesses_marking(db, guesses)
        /\ ret' = Some([call |-> "update_guesses_marking",
                        target_date |-> target_date, guesses |-> guesses])
        /\ UNCHANGED <<now, window, reply, wizard_vars, save_round_calls>>

\* A round of two days, a guess of the first user on its first game day and
\* a guess of either user on its second, each with any of the texts.
UpdateStores ==
    { << to_dict(SeedRound),
         GuessDocAt(1, t1, combine(Day0, first_clue_time + 60)),
         GuessDocAt(u2, t2, combine(Day0 + 1, first_clue_time + 60)) >> :
      t1 \in MarkTexts, t2 \in MarkTexts, u2 \in Users }

InitUpdate ==
    /\ db \in UpdateStores
    /\ now = combine(Day0 + 2, first_clue_time)
    /\ ret = None
    /\ window = [called |-> FALSE, target_date |-> Day0, current_time |-> None,
                 result |-> <<0, 0>>]
    /\ reply = Reply(0, "none", <<>>)
    /\ nr_state = [c \in Conversations |-> "END"]
    /\ rv_state = [c \in Conversations |-> "END"]
    /\ user_data = [u \in Users |-> EmptyUserData]
    /\ conv_state = [c \in Conversations |-> "END"]
    /\ round_name = None
    /\ round_start_date = None
    /\ round_duration = None
    /\ save_round_calls = [p \in Callers |-> NoCall]
    /\ sent = [c \in Conversations |-> <<>>]

NextUpdate ==
    \E d \in Day0 .. Day0 + MaxDay :
        \E song_title \in MarkAnswers, artist_name \in MarkAnswers :
            UpdateGuessesMarking(d, song_title, artist_name)

SpecUpdate == InitUpdate /\ [][NextUpdate]_vars

\* C30: update_guesses_marking with the guesses of game day D leaves every
\* document that is not a guess of game day D as it was: the rounds, and the
\* guesses of other game days, the same guesser's with the same text among
\* them.
C30_OnlyGuessesOfTheDayChange ==
    [][ \A d \in Day0 .. Day0 + MaxDay :
          \A song_title \in MarkAnswers, artist_name \in MarkAnswers :
            UpdateGuessesMarking(d, song_title, artist_name) =>
              /\ Len(db') = Len(db)
              /\ \A i \in 1 .. Len(db) :
                    (db[i].type # "guess" \/ GameDayOf(db[i].timestamp) # d) =>
                        db'[i] = db[i] ]_vars

\* What does hold: the rounds, and the guesses of other game days that
\* differ in guesser or text from every guess of day D, are as they were,
\* and a guess changes in its two marks alone.
C30_OtherGuessersAndTextsUnchanged ==
    [][ \A d \in Day0 .. Day0 + MaxDay :
          \A song_title \in MarkAnswers, artist_name \in MarkAnswers :
            UpdateGuessesMarking(d, song_title, artist_name) =>
              /\ Len(db') = Len(db)
              /\ \A i \in 1 .. Len(db) :
                    /\ (\/ db[i].type # "guess"
                        \/ \A j \in 1 .. Len(db) :
                              (db[j].type = "guess" /\ GameDayOf(db[j].timestamp) = d) =>
                                  \/ db[j].guesser_id # db[i].guesser_id
                                  \/ db[j].guess_text # db[i].guess_text)
                          => db'[i] = db[i]
                    /\ db'[i] = [db[i] EXCEPT !.artist_name_correct = db'[i].artist_name_correct,
                                              !.song_title_correct = db'[i].song_title_correct]
              ]_vars

====
